---------------------------- MODULE Spec2Model ----------------------------
(***************************************************************************)
(* A model of the repository-map engine, openhands/indexing/repomap.py     *)
(* (class RepoMap): the tag cache (get_tags), the graph ranker             *)
(* (get_ranked_tags), the map renderer (to_tree), the budget search        *)
(* (get_ranked_tags_map_uncached), the entry point (get_repo_map) and the  *)
(* mention extractor (get_file_mentions).                                  *)
(*                                                                         *)
(* Text is a sequence of one-character strings, so that concatenation,     *)
(* splitting into lines and truncation are computed as the code computes   *)
(* them.  Python's None is the empty sequence None and a present value v    *)
(* is <<v>> wherever a variable may hold None.                             *)
(***************************************************************************)
EXTENDS Integers, Sequences, FiniteSets, TLC

VARIABLES
    \* ---- budget search: get_ranked_tags_map_uncached --------------------
    self_max_map_tokens,  \* RepoMap.max_map_tokens (the instance's budget)
    est,                  \* est[k]: estimate_token_count(to_tree(ranked_tags[:k]))
    search,               \* the locals of get_ranked_tags_map_uncached
    bpc,                  \* where the call stands: idle, loop, done
    \* ---- the working tree and the tag cache: get_tags --------------------
    disk,                 \* disk[f]: the file's kind, mtime and content
    clock,                \* the last modification time handed out
    TAGS_CACHE,           \* RepoMap.TAGS_CACHE: path -> [mtime, data]
    frame,                \* frame[p]: the locals of process p's get_tags call
    \* ---- the map renderer: to_tree, render_tree --------------------------
    ranked_tags,          \* the ranked list of the top-level call
    tree_cache,           \* RepoMap.tree_cache: (rel_fname, lois) -> text
    tree_in,              \* the prefix last passed to to_tree
    tree_out,             \* what that call returned (None before a call)
    tree_rendered,        \* the keys the renderer ran for since line 150
    \* ---- the map: get_ranked_tags, get_repo_map --------------------------
    self_repo_content_prefix,  \* RepoMap.repo_content_prefix
    warned_files,         \* RepoMap.warned_files
    error_log,            \* the paths of the "can't include" errors logged
    node_rank,            \* the rank nx.pagerank gives a file that is a node
    call,                 \* the last call: its arguments and what it gave
    \* ---- the mention extractor: get_file_mentions -----------------------
    mention,              \* the last call: the text, the files, the result
    \* ---- the trajectory formatter: utils/trajectory.py ------------------
    formatted             \* the last call: the trajectory and the result

budgetVars == <<self_max_map_tokens, est, search, bpc>>

cacheVars == <<disk, clock, TAGS_CACHE, frame>>

renderVars == <<ranked_tags, tree_cache, tree_in, tree_out, tree_rendered>>

mapVars ==
    <<self_repo_content_prefix, warned_files, error_log, node_rank, call>>

\* What the steps of one component leave alone.
notBudget == <<cacheVars, renderVars, mapVars, mention, formatted>>

notCache == <<budgetVars, renderVars, mapVars, mention, formatted>>

notRender == <<budgetVars, TAGS_CACHE, frame, mapVars, mention, formatted>>

notMap ==
    <<est, search, bpc, clock, frame, ranked_tags, tree_in, tree_out,
      tree_rendered, mention, formatted>>

notMention == <<budgetVars, cacheVars, renderVars, mapVars, formatted>>

notFormatter == <<budgetVars, cacheVars, renderVars, mapVars, mention>>

vars == <<budgetVars, cacheVars, renderVars, mapVars, mention, formatted>>

None == <<>>

\* The element of a one-element set; The({e(x) : x \in {v}}) is e with x
\* naming the value of v.
The(S) == CHOOSE x \in S : TRUE

Min(a, b) == IF a <= b THEN a ELSE b

Max(a, b) == IF a >= b THEN a ELSE b

\* The largest number of a finite set of naturals, 0 for the empty set.
SetMax(S) ==
    IF S = {} THEN 0
    ELSE CHOOSE y \in S : \A z \in S : z <= y

(***************************************************************************)
(* Bounds of the model.                                                    *)
(***************************************************************************)
MaxTags == 3

\* Estimated token counts a non-empty rendering may get, and the budgets
\* tried: values on both sides of the multiples of 25 that move the seeded
\* first probe.  The empty rendering (of the empty prefix) counts 0 tokens.
EstVals == {1, 24, 25, 26, 50}

Estimates(n) == {e \in [0..n -> EstVals \cup {0}] :
                    \A k \in 0..n : (e[k] = 0) <=> (k = 0)}

Budgets == {-1, 0, 1, 2, 25, 26, 27, 50, 51, 75, 76}

FieldBudgets == {0, 26}

\* File modifications in one behaviour.
MaxWrites == 2

\* Entries in a list handed to to_tree.
MaxEntries == 2

(***************************************************************************)
(* Paths, identifiers and file contents.                                   *)
(***************************************************************************)
Root == <<"/", "r">>

Sep == <<"/">>

LF == "\n"

CR == "\r"

\* The characters used, in code point order.
Chars == <<LF, CR, "/", ":", "a", "b", "c", "f", "g", "n", "r", "x">>

Code(c) == CHOOSE i \in 1..Len(Chars) : Chars[i] = c

\* a < b for Python strings.
StrLess(a, b) ==
    \E i \in 1..(Min(Len(a), Len(b)) + 1) :
        /\ \A j \in 1..(i - 1) : a[j] = b[j]
        /\ \/ i > Len(a) /\ i <= Len(b)
           \/ i <= Len(a) /\ i <= Len(b) /\ Code(a[i]) < Code(b[i])

\* c * n.
Rep(c, n) == [i \in 1..n |-> c]

\* The characters str.splitlines breaks a line at (of those used).
LineBreaks == {LF, CR}

\* The elements of a finite set of integers in ascending order.
RECURSIVE Ascending(_)
Ascending(S) ==
    IF S = {} THEN <<>>
    ELSE LET lo == CHOOSE x \in S : \A y \in S : x <= y
         IN  <<lo>> \o Ascending(S \ {lo})

\* str.splitlines: the lines without their line breaks, "\r\n" being one
\* break; no empty last line.
splitlines(text) ==
    LET n      == Len(text)
        \* where a line break starts
        ends   == Ascending({i \in 1..n :
                      /\ text[i] \in LineBreaks
                      /\ ~(text[i] = LF /\ i > 1 /\ text[i - 1] = CR)})
        width(i) == IF text[i] = CR /\ i < n /\ text[i + 1] = LF THEN 2 ELSE 1
        start(j) == IF j = 1 THEN 1 ELSE ends[j - 1] + width(ends[j - 1])
        broken == [j \in 1..Len(ends) |-> SubSeq(text, start(j), ends[j] - 1)]
        rest   == SubSeq(text, start(Len(ends) + 1), n)
    IN  IF rest = <<>> THEN broken ELSE Append(broken, rest)

\* sep.join(parts).
RECURSIVE join(_, _)
join(sep, parts) ==
    IF parts = <<>> THEN <<>>
    ELSE IF Len(parts) = 1 THEN parts[1]
    ELSE parts[1] \o sep \o join(sep, Tail(parts))

\* RepoMap.get_absolute_path for a path below the root.
get_absolute_path(rel) == Root \o Sep \o rel

\* RepoMap.get_relative_fname: os.path.relpath(abs_path, root), for an
\* absolute path below the root; a path already relative is taken relative
\* to the root (the working directory).
get_relative_fname(path) ==
    LET n == Len(Root) + 1
    IN  IF Len(path) > n /\ SubSeq(path, 1, n) = Root \o Sep
        THEN SubSeq(path, n + 1, Len(path))
        ELSE path

RelA == <<"a">>

RelB == <<"b">>

RelC == <<"c">>

RelN == <<"n">>

AbsA == get_absolute_path(RelA)

AbsB == get_absolute_path(RelB)

AbsC == get_absolute_path(RelC)

AbsN == get_absolute_path(RelN)

IdF == <<"f">>

IdG == <<"g">>

\* The capture labels of a tags query that get_tags_raw tells apart by
\* their prefix (lines 428-433).
DefLabels == {"name.definition.function", "name.definition.class"}

RefLabels == {"name.reference.call"}

Cap(label, name, line) == [label |-> label, name |-> name, line |-> line]

\* to_tree cuts every line to this many characters (line 203).
LineLimit == 100

\* What a file may hold: whether read_text yields text (decodable and not
\* empty) and the text, the captures of the tags query on it, in order, the
\* Name tokens of the pygments lexer on it, and whether a lexer is found.
Pool ==
    << [ code |-> FALSE, text |-> <<>>,
         captures |-> <<>>, tokens |-> <<>>, lexer |-> TRUE ],
       [ code |-> TRUE, text |-> <<"f", LF, "g", LF>>,
         captures |-> << Cap("name.definition.function", IdF, 0),
                         Cap("name.reference.call", IdG, 1) >>,
         tokens |-> <<IdF, IdG>>, lexer |-> TRUE ],
       [ code |-> TRUE, text |-> <<"g", LF, "f", CR, LF, "g">>,
         captures |-> << Cap("name.definition.function", IdG, 0),
                         Cap("definition.function", IdG, 0),
                         Cap("name.definition.class", IdG, 2) >>,
         tokens |-> <<IdG, IdF, IdG>>, lexer |-> TRUE ],
       [ code |-> TRUE, text |-> <<"f", LF, "f", LF>>,
         captures |-> << Cap("name.reference.call", IdF, 0),
                         Cap("name.reference.call", IdF, 1) >>,
         tokens |-> <<IdF, IdF>>, lexer |-> TRUE ],
       [ code |-> TRUE, text |-> <<LF, "f", LF>>,
         captures |-> << Cap("name.definition.function", IdF, 1) >>,
         tokens |-> <<IdF>>, lexer |-> FALSE ],
       [ code |-> TRUE, text |-> Rep("x", LineLimit + 1) \o <<LF, "f", ":">>,
         captures |-> << Cap("name.definition.function", IdF, 0),
                         Cap("name.definition.function", IdF, 1) >>,
         tokens |-> <<IdF, IdF>>, lexer |-> TRUE ],
       [ code |-> TRUE, text |-> <<"f", LF, "g", LF>>,
         captures |-> << Cap("name.definition.function", IdF, 0),
                         Cap("name.definition.function", IdG, 1) >>,
         tokens |-> <<IdF, IdG>>, lexer |-> FALSE ],
       [ code |-> TRUE, text |-> <<"g", LF>>,
         captures |-> << Cap("name.definition.function", IdG, 0) >>,
         tokens |-> <<IdG>>, lexer |-> FALSE ],
       [ code |-> TRUE, text |-> <<"f", ":", LF>>,
         captures |-> << Cap("name.definition.function", IdF, 0) >>,
         tokens |-> <<IdF>>, lexer |-> FALSE ],
       [ code |-> TRUE, text |-> <<"g", LF, "g", LF, "f", LF>>,
         captures |-> << Cap("name.reference.call", IdG, 0),
                         Cap("name.reference.call", IdG, 1),
                         Cap("name.reference.call", IdF, 2) >>,
         tokens |-> <<IdG, IdG, IdF>>, lexer |-> TRUE ] >>

PoolIdx == 1..Len(Pool)

\* filename_to_lang and the query resource, by file name: the file n has no
\* grammar.
HasGrammar(fname) == fname # AbsN /\ fname # RelN

Missing == [kind |-> "missing", mtime |-> 0, content |-> 1]

(***************************************************************************)
(* The tag extractor, repomap.py:393-471.                                  *)
(***************************************************************************)
Tag(rel_fname, fname, line, name, kind) ==
    [rel_fname |-> rel_fname, fname |-> fname, line |-> line,
     name |-> name, kind |-> kind]

\* Lines 428-433: the kind of a capture, or None for a capture skipped.
KindOf(label) ==
    IF label \in DefLabels THEN <<"def">>
    ELSE IF label \in RefLabels THEN <<"ref">>
    ELSE None

\* Lines 427-445: one Tag per capture of a known kind, in capture order.
RECURSIVE CaptureTags(_, _, _)
CaptureTags(fname, rel_fname, caps) ==
    IF caps = <<>> THEN <<>>
    ELSE LET c    == Head(caps)
             rest == CaptureTags(fname, rel_fname, Tail(caps))
         IN  IF KindOf(c.label) = None THEN rest
             ELSE <<Tag(rel_fname, fname, c.line, c.name, KindOf(c.label)[1])>>
                      \o rest

\* Lines 461-471: a reference Tag of line -1 per Name token.
TokenTags(fname, rel_fname, tokens) ==
    [i \in 1..Len(tokens) |-> Tag(rel_fname, fname, -1, tokens[i], "ref")]

\* get_tags_raw that backfills references whenever it saw a definition.
get_tags_rawBackfillAll(fname, rel_fname, c) ==
    IF ~HasGrammar(fname) THEN <<>>
    ELSE IF c = None \/ ~c[1].code THEN <<>>
    ELSE LET tags == CaptureTags(fname, rel_fname, c[1].captures)
             saw  == {tags[i].kind : i \in 1..Len(tags)}
         IN  IF "def" \notin saw \/ ~c[1].lexer
             THEN tags
             ELSE tags \o TokenTags(fname, rel_fname, c[1].tokens)

\* get_tags_raw on a file that holds the content c, or None when it cannot
\* be opened.
get_tags_raw(fname, rel_fname, c) ==
    IF ~HasGrammar(fname) THEN <<>>
    ELSE IF c = None \/ ~c[1].code THEN <<>>
    ELSE LET tags == CaptureTags(fname, rel_fname, c[1].captures)
             saw  == {tags[i].kind : i \in 1..Len(tags)}
         IN  IF "ref" \in saw \/ "def" \notin saw \/ ~c[1].lexer
             THEN tags
             ELSE tags \o TokenTags(fname, rel_fname, c[1].tokens)

\* What read_text finds at a path now: the content, or None.
ContentOf(d, fname) ==
    IF d[fname].kind = "file" THEN <<Pool[d[fname].content]>> ELSE None

\* get_mtime that reports the epoch for a missing file.
get_mtimeEpoch(d, fname) == <<d[fname].mtime>>

\* get_mtime, lines 644-648: None for a missing file.
get_mtime(d, fname) ==
    IF d[fname].kind = "missing" THEN None ELSE <<d[fname].mtime>>

(***************************************************************************)
(* The tag cache, repomap.py:372-391, step by step for processes that      *)
(* share the cache and the working tree.                                   *)
(***************************************************************************)
Procs == {"p1", "p2"}

CacheFiles == {AbsA, AbsN}

\* The contents written in the cache's behaviours.
CacheContents == {2, 3}

IdleFrame ==
    [pc |-> "idle", fname |-> <<>>, rel_fname |-> <<>>, file_mtime |-> None,
     data |-> <<>>, parsed |-> 0]

\* CacheHit that never finds the entry current.
CacheHitNever(cache, cache_key, file_mtime) == FALSE

\* Lines 378-381: the entry is present and its mtime is the one just read.
CacheHit(cache, cache_key, file_mtime) ==
    /\ cache_key \in DOMAIN cache
    /\ cache[cache_key].mtime = file_mtime[1]

\* NewEntry that pairs the tags with the mtime the file has when the entry
\* is stored.
NewEntryLateMtime(fr, d) ==
    [mtime |-> d[fr.fname].mtime, data |-> fr.data]

\* Line 389: the entry stored on a miss.
NewEntry(fr, d) == [mtime |-> fr.file_mtime[1], data |-> fr.data]

\* Put that starts from an empty cache.
PutAlone(cache, key, entry) == [k \in {key} |-> entry]

\* cache[key] = entry.
Put(cache, key, entry) ==
    [k \in DOMAIN cache \cup {key} |-> IF k = key THEN entry ELSE cache[k]]

CacheInit ==
    /\ disk \in [CacheFiles -> {Missing, [kind |-> "file", mtime |-> 0,
                                          content |-> 2]}]
    /\ clock = 0
    /\ TAGS_CACHE = <<>>
    /\ frame = [p \in Procs |-> IdleFrame]

\* A file is written (or created): new content, a fresh mtime.
WriteFile(f) ==
    /\ clock < MaxWrites
    /\ \E c \in CacheContents :
           disk' = [disk EXCEPT ![f] = [kind |-> "file", mtime |-> clock + 1,
                                        content |-> c]]
    /\ clock' = clock + 1
    /\ UNCHANGED <<TAGS_CACHE, frame>>
    /\ UNCHANGED notCache

DeleteFile(f) ==
    /\ disk[f].kind = "file"
    /\ disk' = [disk EXCEPT ![f] = Missing]
    /\ UNCHANGED <<clock, TAGS_CACHE, frame>>
    /\ UNCHANGED notCache

\* Lines 373-375: the call starts, reads the mtime and returns [] for a
\* missing file.
GetTagsMtime(p, f) ==
    /\ frame[p].pc \in {"idle", "done"}
    /\ LET m == get_mtime(disk, f)
       IN  frame' = [frame EXCEPT ![p] =
               [pc |-> IF m = None THEN "done" ELSE "lookup",
                fname |-> f, rel_fname |-> get_relative_fname(f),
                file_mtime |-> m, data |-> <<>>, parsed |-> 0]]
    /\ UNCHANGED <<disk, clock, TAGS_CACHE>>
    /\ UNCHANGED notCache

\* Lines 377-381: the test of the cache entry.
GetTagsLookup(p) ==
    /\ frame[p].pc = "lookup"
    /\ frame' = [frame EXCEPT ![p].pc =
           IF CacheHit(TAGS_CACHE, frame[p].fname, frame[p].file_mtime)
           THEN "hit" ELSE "miss"]
    /\ UNCHANGED <<disk, clock, TAGS_CACHE>>
    /\ UNCHANGED notCache

\* Line 382: the hit returns the entry's data.
GetTagsHit(p) ==
    /\ frame[p].pc = "hit"
    /\ frame' = [frame EXCEPT ![p].pc = "done",
                              ![p].data = TAGS_CACHE[frame[p].fname].data]
    /\ UNCHANGED <<disk, clock, TAGS_CACHE>>
    /\ UNCHANGED notCache

\* Line 386: the miss runs the extractor on what the file holds now.
GetTagsParse(p) ==
    /\ frame[p].pc = "miss"
    /\ frame' = [frame EXCEPT ![p].pc = "store",
                              ![p].parsed = @ + 1,
                              ![p].data = get_tags_raw(frame[p].fname,
                                  frame[p].rel_fname,
                                  ContentOf(disk, frame[p].fname))]
    /\ UNCHANGED <<disk, clock, TAGS_CACHE>>
    /\ UNCHANGED notCache

\* Lines 389-391: the entry is stored and the tags returned.
GetTagsStore(p) ==
    /\ frame[p].pc = "store"
    /\ TAGS_CACHE' = Put(TAGS_CACHE, frame[p].fname, NewEntry(frame[p], disk))
    /\ frame' = [frame EXCEPT ![p].pc = "done"]
    /\ UNCHANGED <<disk, clock>>
    /\ UNCHANGED notCache

CacheNext ==
    \/ \E f \in CacheFiles : WriteFile(f)
    \/ \E f \in CacheFiles : DeleteFile(f)
    \/ \E p \in Procs, f \in CacheFiles : GetTagsMtime(p, f)
    \/ \E p \in Procs : GetTagsLookup(p)
    \/ \E p \in Procs : GetTagsHit(p)
    \/ \E p \in Procs : GetTagsParse(p)
    \/ \E p \in Procs : GetTagsStore(p)

(***************************************************************************)
(* The map renderer, repomap.py:169-235.  An entry of a ranked list is a   *)
(* Tag or a bare-path marker, the tuple (rel_fname,).                      *)
(***************************************************************************)
Marker(rel_fname) == [rel_fname |-> rel_fname]

\* type(tag) is Tag.
IsTag(e) == "kind" \in DOMAIN e

\* x < y for the tuples (rel_fname, fname, line, name, kind) and
\* (rel_fname,): element by element, a proper prefix first.
EntryLess(x, y) ==
    IF x.rel_fname # y.rel_fname THEN StrLess(x.rel_fname, y.rel_fname)
    ELSE IF ~IsTag(x) THEN IsTag(y)
    ELSE IF ~IsTag(y) THEN FALSE
    ELSE IF x.fname # y.fname THEN StrLess(x.fname, y.fname)
    ELSE IF x.line # y.line THEN x.line < y.line
    ELSE IF x.name # y.name THEN StrLess(x.name, y.name)
    ELSE x.kind = "def" /\ y.kind = "ref"

\* sorted that leaves the list as it is.
sortedNot(tags) == tags

\* sorted(tags), line 173.
sorted(tags) == SortSeq(tags, EntryLess)

\* The code-context renderer (grep_ast.TreeContext, lines 217-233), at its
\* interface: the lines of interest of the code, in line order, one per
\* line; a line of interest the code does not have is left out.
RECURSIVE LinesFrom(_, _, _)
LinesFrom(lines, want, l) ==
    IF l >= Len(lines) THEN <<>>
    ELSE (IF l \in want THEN lines[l + 1] \o <<LF>> ELSE <<>>)
             \o LinesFrom(lines, want, l + 1)

TreeContextFormat(code, lois) ==
    LET lines == splitlines(code)
        want  == {l \in {lois[i] : i \in 1..Len(lois)} : l >= 0 /\ l < Len(lines)}
    IN  LinesFrom(lines, want, 0)

\* read_text(abs_fname) or "", lines 213 and 473-491.
read_text(d, fname) ==
    IF fname \in DOMAIN d /\ d[fname].kind = "file" /\ Pool[d[fname].content].code
    THEN Pool[d[fname].content].text
    ELSE <<>>

\* render_tree, lines 207-235: the text for the key (rel_fname, sorted
\* lois), from tree_cache if it is there, else rendered and stored.  Gives
\* the text, the cache after the call and the keys rendered so far.
\* render_tree without lines 210-211 and 234: every request is rendered.
render_treeUncached(cache, rendered, d, abs_fname, rel_fname, lois) ==
    LET key  == <<rel_fname, SortSeq(lois, <)>>
        text == read_text(d, abs_fname)
        code == IF text # <<>> /\ text[Len(text)] = LF THEN text
                ELSE text \o <<LF>>
    IN  [res |-> TreeContextFormat(code, lois), cache |-> cache,
         rendered |-> Append(rendered, key)]

render_tree(cache, rendered, d, abs_fname, rel_fname, lois) ==
    LET key  == <<rel_fname, SortSeq(lois, <)>>
        text == read_text(d, abs_fname)
        code == IF text # <<>> /\ text[Len(text)] = LF THEN text
                ELSE text \o <<LF>>
        res  == TreeContextFormat(code, lois)
    IN  IF key \in DOMAIN cache
        THEN [res |-> cache[key], cache |-> cache, rendered |-> rendered]
        ELSE [res |-> res,
              cache |-> [k \in DOMAIN cache \cup {key} |->
                            IF k = key THEN res ELSE cache[k]],
              rendered |-> Append(rendered, key)]

\* Line 203 with a cut one character too long.
TruncateLong(output) ==
    LET lines == splitlines(output)
    IN  join(<<LF>>, [i \in 1..Len(lines) |->
                         SubSeq(lines[i], 1, Min(Len(lines[i]), LineLimit + 1))])
            \o <<LF>>

\* Line 203: every line cut to LineLimit characters, joined by newlines,
\* and a final newline.
Truncate(output) ==
    LET lines == splitlines(output)
    IN  join(<<LF>>, [i \in 1..Len(lines) |->
                         SubSeq(lines[i], 1, Min(Len(lines[i]), LineLimit))])
            \o <<LF>>

\* Lines 183-200: the loop body for one entry; this is the entry's
\* rel_fname (None for the dummy tag that ends the list).
TreeStep(st, d, this, e) ==
    LET changed == this # st.cur_fname
        r       == render_tree(st.cache, st.rendered, d, st.cur_abs_fname,
                               st.cur_fname[1], st.lois[1])
        flushed ==
            IF ~changed THEN st
            ELSE IF st.lois # None
                 THEN [st EXCEPT !.output = @ \o st.cur_fname[1] \o <<":", LF>>
                                               \o r.res,
                                 !.cache = r.cache,
                                 !.rendered = r.rendered,
                                 !.lois = None]
            ELSE IF st.cur_fname # None /\ st.cur_fname[1] # <<>>
                 THEN [st EXCEPT !.output = @ \o <<LF>> \o st.cur_fname[1]
                                               \o <<LF>>]
            ELSE st
        lois    == IF changed
                   THEN (IF IsTag(e) THEN <<(<<>>)>> ELSE None)
                   ELSE st.lois
    IN  [flushed EXCEPT
            !.lois = IF lois # None THEN <<Append(lois[1], e.line)>> ELSE None,
            !.cur_abs_fname = IF changed /\ IsTag(e) THEN e.fname ELSE @,
            !.cur_fname = this]

\* Lines 182-200: the loop over the sorted entries and the dummy tag at
\* their end, from entry i on.
RECURSIVE TreeLoop(_, _, _, _)
TreeLoop(st0, d, tags, i) ==
    CHOOSE out \in
        { IF i > Len(tags)
          THEN TreeStep(st, d, None, Marker(None))
          ELSE TreeLoop(TreeStep(st, d, <<tags[i].rel_fname>>, tags[i]), d,
                        tags, i + 1) : st \in {st0} } : TRUE

\* to_tree, lines 169-205: the text, the tree_cache after the call and the
\* keys the renderer was invoked for.
to_tree(cache, d, tags) ==
    IF tags = <<>> THEN [output |-> <<>>, cache |-> cache, rendered |-> <<>>]
    ELSE CHOOSE out \in
           { [output |-> Truncate(st.output), cache |-> st.cache,
              rendered |-> st.rendered] :
             st \in { TreeLoop([cur_fname |-> None, cur_abs_fname |-> None,
                                lois |-> None, output |-> <<>>,
                                cache |-> cache, rendered |-> <<>>],
                               d, srt, 1) : srt \in {sorted(tags)} } } : TRUE

\* The files, contents and entries of the renderer's behaviours.
RenderFiles == {AbsA, AbsB}

RenderContents == {3, 6}

RelLong == Rep("x", LineLimit + 1)

RelBreak == <<"a", CR, "b">>

RenderEntries ==
    { Tag(RelA, AbsA, 0, IdF, "def"), Tag(RelA, AbsA, 1, IdF, "def"),
      Tag(RelB, AbsB, 2, IdG, "def"),
      Marker(RelA), Marker(RelLong), Marker(RelBreak) }

RECURSIVE ListsOf(_, _)
ListsOf(S, n) ==
    IF n = 0 THEN {<<>>}
    ELSE LET shorter == ListsOf(S, n - 1)
         IN  shorter \cup {Append(l, e) : l \in {x \in shorter : Len(x) = n - 1},
                                          e \in S}

\* The lists get_ranked_tags can return (lines 341-370): no entry twice, and
\* no bare-path marker of a file that has a Tag in the list.
Producible(list) ==
    /\ \A i, j \in 1..Len(list) : list[i] = list[j] => i = j
    /\ \A i, j \in 1..Len(list) :
           (IsTag(list[i]) /\ ~IsTag(list[j])) =>
               list[i].rel_fname # list[j].rel_fname

RenderInit ==
    /\ disk \in [RenderFiles -> {[kind |-> "file", mtime |-> 0, content |-> c] :
                                    c \in RenderContents}]
    /\ clock = 0
    /\ ranked_tags = <<>>
    /\ tree_cache = <<>>
    /\ tree_in = <<>>
    /\ tree_out = None
    /\ tree_rendered = <<>>

\* Lines 136-150: a top-level call gets its ranked list and empties the
\* cache.
ResetTreeCache ==
    /\ ranked_tags' \in {l \in ListsOf(RenderEntries, MaxEntries) :
                            Producible(l)}
    /\ tree_cache' = <<>>
    /\ tree_in' = <<>>
    /\ tree_out' = None
    /\ tree_rendered' = <<>>
    /\ UNCHANGED <<disk, clock>>
    /\ UNCHANGED notRender

\* Line 153: to_tree on a prefix of the ranked list.
ToTreeCall ==
    /\ \E k \in 0..Len(ranked_tags) :
           LET tags == SubSeq(ranked_tags, 1, k)
               r    == to_tree(tree_cache, disk, tags)
           IN  /\ tree_in' = tags
               /\ tree_out' = <<r.output>>
               /\ tree_cache' = r.cache
               /\ tree_rendered' = tree_rendered \o r.rendered
    /\ UNCHANGED <<disk, clock, ranked_tags>>
    /\ UNCHANGED notRender

RenderNext == ResetTreeCache \/ ToTreeCall

(***************************************************************************)
(* The budget search, repomap.py:141-167.                                  *)
(***************************************************************************)
SeedDivisor == 25

\* len(ranked_tags[:m]) for a list of n entries: Python's slice semantics,
\* where a negative m counts from the end.
SliceLen(n, m) == IF m >= 0 THEN Min(m, n) ELSE Max(n + m, 0)

\* SearchInit with the upper bound one short of the list's length.
SearchInitShort(n, arg, field) ==
    LET mmt == IF arg = 0 THEN field ELSE arg
    IN  [ num_tags         |-> n,
          max_map_tokens   |-> mmt,
          lower_bound      |-> 0,
          upper_bound      |-> n - 1,
          best_tree        |-> None,
          best_tree_tokens |-> 0,
          middle           |-> Min(mmt \div SeedDivisor, n),
          probes           |-> <<>> ]

\* Lines 129-130 and 141-150: the budget in effect and the locals before the
\* loop.  A falsy max_map_tokens argument (0 or None) is replaced by the
\* instance's budget.
SearchInit(n, arg, field) ==
    LET mmt == IF arg = 0 THEN field ELSE arg
    IN  [ num_tags         |-> n,
          max_map_tokens   |-> mmt,
          lower_bound      |-> 0,
          upper_bound      |-> n,
          best_tree        |-> None,
          best_tree_tokens |-> 0,
          middle           |-> Min(mmt \div SeedDivisor, n),
          probes           |-> <<>> ]

\* Line 152: the loop condition.
LoopCond(s) == s.lower_bound <= s.upper_bound

\* IsBetter with the budget test weakened to <=.
IsBetterLe(num_tokens, s) ==
    num_tokens <= s.max_map_tokens /\ num_tokens > s.best_tree_tokens

\* Line 156: whether the probed rendering replaces the best one so far.
IsBetter(num_tokens, s) ==
    num_tokens < s.max_map_tokens /\ num_tokens > s.best_tree_tokens

\* LoopBody with the next probe at the lower bound, not at the midpoint.
LoopBodyLinear(s, e) ==
    LET k          == SliceLen(s.num_tags, s.middle)
        num_tokens == e[k]
        fits       == num_tokens < s.max_map_tokens
        lb         == IF fits THEN s.middle + 1 ELSE s.lower_bound
        ub         == IF fits THEN s.upper_bound ELSE s.middle - 1
    IN  [ s EXCEPT
            !.best_tree        = IF IsBetter(num_tokens, s) THEN <<k>> ELSE @,
            !.best_tree_tokens = IF IsBetter(num_tokens, s) THEN num_tokens ELSE @,
            !.lower_bound      = lb,
            !.upper_bound      = ub,
            !.middle           = lb,
            !.probes           = Append(@, k) ]

\* LoopBody with the two branches of lines 160-163 swapped.
LoopBodySwapped(s, e) ==
    LET k          == SliceLen(s.num_tags, s.middle)
        num_tokens == e[k]
        fits       == num_tokens < s.max_map_tokens
        lb         == IF fits THEN s.lower_bound ELSE s.middle + 1
        ub         == IF fits THEN s.middle - 1 ELSE s.upper_bound
    IN  [ s EXCEPT
            !.best_tree        = IF IsBetter(num_tokens, s) THEN <<k>> ELSE @,
            !.best_tree_tokens = IF IsBetter(num_tokens, s) THEN num_tokens ELSE @,
            !.lower_bound      = lb,
            !.upper_bound      = ub,
            !.middle           = (lb + ub) \div 2,
            !.probes           = Append(@, k) ]

\* Lines 153-165: one iteration.  The tree rendered is that of the prefix of
\* SliceLen(num_tags, middle) entries, named here by that length; e[k] is
\* its estimated token count.
LoopBody(s, e) ==
    LET k          == SliceLen(s.num_tags, s.middle)
        num_tokens == e[k]
        fits       == num_tokens < s.max_map_tokens
        lb         == IF fits THEN s.middle + 1 ELSE s.lower_bound
        ub         == IF fits THEN s.upper_bound ELSE s.middle - 1
    IN  [ s EXCEPT
            !.best_tree        = IF IsBetter(num_tokens, s) THEN <<k>> ELSE @,
            !.best_tree_tokens = IF IsBetter(num_tokens, s) THEN num_tokens ELSE @,
            !.lower_bound      = lb,
            !.upper_bound      = ub,
            !.middle           = (lb + ub) \div 2,
            !.probes           = Append(@, k) ]

\* The whole loop, lines 152-167: the locals when it exits.
RECURSIVE SearchRun(_, _)
SearchRun(s0, e) ==
    CHOOSE out \in { IF LoopCond(s) THEN SearchRun(LoopBody(s, e), e) ELSE s :
                     s \in {s0} } : TRUE

\* The prefix length of the rendering returned; none returned counts as 0.
SelectedK(s) == IF s.best_tree = None THEN 0 ELSE s.best_tree[1]

(***************************************************************************)
(* Ranking, repomap.py:237-370.  A Python set is iterated in the order of  *)
(* its hash table, which for strings and for tuples of strings changes     *)
(* with the interpreter's hash seed: the order is an outcome the run       *)
(* picks, here ascending or descending.                                    *)
(***************************************************************************)
HashSeeds == {"up", "down"}

Reverse(s) == [i \in 1..Len(s) |-> s[Len(s) + 1 - i]]

\* The elements of a finite set, least first under the total order Less.
Ordered(S, Less(_, _)) ==
    [p \in 1..Cardinality(S) |->
        CHOOSE x \in S : Cardinality({y \in S : Less(y, x)}) = p - 1]

\* list(S) and "for x in S" for a set S whose elements in ascending order
\* are ordered.
SetIter(ordered, seed) ==
    IF seed = "up" THEN ordered ELSE Reverse(ordered)

\* The elements of a sequence, as a set.
Range(s) == {s[i] : i \in 1..Len(s)}

\* The first occurrences of a sequence's elements, in order (the keys of a
\* dict or Counter filled in that order).
FirstOccurrences(s) ==
    LET idx == Ascending({i \in 1..Len(s) : \A j \in 1..(i - 1) : s[j] # s[i]})
    IN  [k \in 1..Len(idx) |-> s[idx[k]]]

\* The concatenation of a sequence of sequences.
RECURSIVE Flatten(_)
Flatten(ss) ==
    IF ss = <<>> THEN <<>> ELSE Head(ss) \o Flatten(Tail(ss))

\* sum(s) for a sequence of numbers.
RECURSIVE SumSeq(_)
SumSeq(s) == IF s = <<>> THEN 0 ELSE Head(s) + SumSeq(Tail(s))

\* The product of a sequence of numbers.
RECURSIVE ProdSeq(_)
ProdSeq(s) == IF s = <<>> THEN 1 ELSE Head(s) * ProdSeq(Tail(s))

\* Path(fname).is_file(), line 258.
is_file(d, fname) == fname \in DOMAIN d /\ d[fname].kind = "file"

\* get_tags as one call, lines 372-391: the tags and the cache after it.
get_tags(cache, d, fname, rel_fname) ==
    LET file_mtime == get_mtime(d, fname)
        data       == get_tags_raw(fname, rel_fname, ContentOf(d, fname))
    IN  IF file_mtime = None THEN [data |-> <<>>, cache |-> cache]
        ELSE IF CacheHit(cache, fname, file_mtime)
        THEN [data |-> cache[fname].data, cache |-> cache]
        ELSE [data |-> data,
              cache |-> Put(cache, fname,
                            NewEntry([fname |-> fname, file_mtime |-> file_mtime,
                                      data |-> data], d))]

\* The edge weight multiplier of any other identifier, line 308.
UnmentionedMul == 1

\* A multiplier that boosts nothing.
MentionMulNone == UnmentionedMul

\* The edge weight multiplier of a mentioned identifier, line 306.
MentionMul == 10

\* Lines 258-287: the loop body for one file of the sorted file list.  The
\* def and ref Tags are kept in the order met; defines, definitions and
\* references are read off them below.
PersonalizeNumerator == 10

\* Line 251: personalize = 10 / len(fnames), as a fraction.
personalize(fnames) == [num |-> PersonalizeNumerator, den |-> Len(fnames)]

\* Warned that forgets the paths warned about.
WarnedNever(warned, fname) == FALSE

\* Line 259: the path was warned about before.
Warned(warned, fname) == fname \in warned

FileStep(acc, d, fname, mentioned_fnames) ==
    IF ~is_file(d, fname)
    THEN [acc EXCEPT !.logged = IF Warned(acc.warned_files, fname) THEN @
                                ELSE Append(@, fname),
                     !.warned_files = @ \cup {fname}]
    ELSE LET rel_fname == get_relative_fname(fname)
             r         == get_tags(acc.cache, d, fname, rel_fname)
         IN  [acc EXCEPT
                 !.personalization =
                     IF fname \in mentioned_fnames
                     THEN [k \in DOMAIN acc.personalization \cup {rel_fname} |->
                              IF k = rel_fname THEN acc.personalize
                              ELSE acc.personalization[k]]
                     ELSE @,
                 !.cache = r.cache,
                 !.defs  = @ \o SelectSeq(r.data, LAMBDA t : t.kind = "def"),
                 !.refs  = @ \o SelectSeq(r.data, LAMBDA t : t.kind = "ref")]

\* Lines 257-287: the loop over fnames from its i-th file on.
RECURSIVE FileLoop(_, _, _, _, _)
FileLoop(acc0, d, fnames, mentioned_fnames, i) ==
    CHOOSE out \in
        { IF i > Len(fnames) THEN acc
          ELSE FileLoop(FileStep(acc, d, fnames[i], mentioned_fnames), d,
                        fnames, mentioned_fnames, i + 1) : acc \in {acc0} } : TRUE

\* defines[ident], lines 282 and 304: the files that define ident.
Definers(defs, ident) ==
    {defs[i].rel_fname : i \in {j \in 1..Len(defs) : defs[j].name = ident}}

\* references[ident] with each referencing file once.
ReferencesOfDistinct(defs, refs, ident, seed) ==
    IF refs # <<>>
    THEN LET mine == SelectSeq(refs, LAMBDA t : t.name = ident)
         IN  FirstOccurrences([i \in 1..Len(mine) |-> mine[i].rel_fname])
    ELSE SetIter(Ordered(Definers(defs, ident), StrLess), seed)

\* references[ident], lines 287 and 294-297: the referencing files, one per
\* reference; with no reference at all, the definers of each identifier.
ReferencesOf(defs, refs, ident, seed) ==
    IF refs # <<>>
    THEN LET mine == SelectSeq(refs, LAMBDA t : t.name = ident)
         IN  [i \in 1..Len(mine) |-> mine[i].rel_fname]
    ELSE SetIter(Ordered(Definers(defs, ident), StrLess), seed)

\* Lines 299-313: the edges in the order added.
Edges(defs, refs, mentioned_idents, seed) ==
    LET defined    == {defs[i].name : i \in 1..Len(defs)}
        referenced == IF refs # <<>> THEN {refs[i].name : i \in 1..Len(refs)}
                      ELSE defined
        idents     == SetIter(Ordered(defined \cap referenced, StrLess), seed)
        of(ident)  ==
            LET references   == ReferencesOf(defs, refs, ident, seed)
                referencers  == FirstOccurrences(references)
                definers     == SetIter(Ordered(Definers(defs, ident), StrLess), seed)
                mul          == IF ident \in mentioned_idents THEN MentionMul
                                ELSE UnmentionedMul
                num_refs(r)  == Cardinality({i \in 1..Len(references) :
                                                references[i] = r})
            IN  Flatten([i \in 1..Len(referencers) |->
                    [j \in 1..Len(definers) |->
                        [src |-> referencers[i], dst |-> definers[j],
                         weight |-> mul * num_refs(referencers[i]),
                         ident |-> ident]]])
    IN  Flatten([k \in 1..Len(idents) |-> of(idents[k])])

\* The files with an out edge, in the order added.
NodesSources(edges) ==
    FirstOccurrences([i \in 1..Len(edges) |-> edges[i].src])

\* G.nodes: the files with an edge, in the order added.
Nodes(edges) ==
    FirstOccurrences(Flatten([i \in 1..Len(edges) |->
                                 <<edges[i].src, edges[i].dst>>]))

\* G.out_edges(src): by successor in the order first added, then in the
\* order added.
OutEdges(edges, src) ==
    LET mine == SelectSeq(edges, LAMBDA e : e.src = src)
        dsts == FirstOccurrences([i \in 1..Len(mine) |-> mine[i].dst])
    IN  Flatten([k \in 1..Len(dsts) |->
                    SelectSeq(mine, LAMBDA e : e.dst = dsts[k])])

\* nx.pagerank at its interface (line 324): no ranks for a graph without
\* nodes; ZeroDivisionError when a personalization is given that puts no
\* weight on any node; else a positive rank per node, pr being the ranks
\* the power iteration arrives at.
PagerankRaises(nodes, personalization) ==
    /\ nodes # {}
    /\ personalization # {}
    /\ personalization \cap nodes = {}

pagerank(nodes, pr) == [n \in nodes |-> pr[n]]

\* total_weight of lines 332-334: the weights of a node's out edges.
TotalWeight(edges, src) ==
    SumSeq([i \in 1..Len(edges) |->
               IF edges[i].src = src THEN edges[i].weight ELSE 0])

\* The product of the nodes' total out weights: ranks are kept as multiples
\* of 1 / RankScale.
RankScale(edges, nodes) ==
    ProdSeq([n \in 1..Len(nodes) |-> Max(TotalWeight(edges, nodes[n]), 1)])

\* Lines 329-339: the rank of each (definer, ident) pair, as a multiple of
\* 1 / RankScale, and the pairs in the order they enter ranked_definitions.
RankedDefinitions(edges, nodes, ranked) ==
    The({ The({
        LET rank(e) == ranked[e.src] * e.weight
                           * (scale \div TotalWeight(edges, e.src))
            keys    == FirstOccurrences([i \in 1..Len(walk) |->
                                           <<walk[i].dst, walk[i].ident>>])
            sum(key) ==
                SumSeq([i \in 1..Len(edges) |->
                           IF edges[i].dst = key[1] /\ edges[i].ident = key[2]
                           THEN rank(edges[i]) ELSE 0])
        IN  [k \in 1..Len(keys) |-> [key |-> keys[k], rank |-> sum(keys[k])]] :
        walk \in {Flatten([n \in 1..Len(nodes) |->
                              OutEdges(edges, nodes[n])])} }) :
        scale \in {RankScale(edges, nodes)} })

\* sorted(items, reverse=True, key=rank), lines 342-344: by descending
\* rank, items of equal rank in their order in items.
SortedByRank(items) ==
    LET n == Len(items)
        before(j, i) ==
            \/ items[j].rank > items[i].rank
            \/ items[j].rank = items[i].rank /\ j < i
    IN  [p \in 1..n |->
            items[CHOOSE i \in 1..n :
                      Cardinality({j \in 1..n : before(j, i)}) = p - 1]]

\* The nodes by ascending (rank, node).
TopRankAscending(nodes, ranked) ==
    Ordered(nodes, LAMBDA x, y :
        ranked[x] < ranked[y] \/ (ranked[x] = ranked[y] /\ StrLess(x, y)))

\* Lines 358-360: the nodes by descending (rank, node).
TopRank(nodes, ranked) ==
    Reverse(Ordered(nodes, LAMBDA x, y :
        ranked[x] < ranked[y] \/ (ranked[x] = ranked[y] /\ StrLess(x, y))))

\* Lines 341-370: the list, from the ranked definitions and the definition
\* Tags.
\* AlreadyIncluded that finds no file included.
AlreadyIncludedNever(fname, fnames_already_included) == FALSE

\* Line 364: the file has a Tag in the list.
AlreadyIncluded(fname, fnames_already_included) ==
    fname \in fnames_already_included

RankedList(defs, rd, nodes, other_fnames, pr, seed) ==
    LET ranked == pagerank(Range(nodes), pr)
        definitions(key) ==
            {t \in Range(defs) : t.rel_fname = key[1] /\ t.name = key[2]}
        rel_other_fnames == {get_relative_fname(f) : f \in other_fnames}
    IN  The({ The({
            LET fnames_already_included ==
                    {tags[i].rel_fname : i \in 1..Len(tags)}
                ranked_markers ==
                    SelectSeq(TopRank(Range(nodes), ranked),
                              LAMBDA n : ~AlreadyIncluded(n,
                                             fnames_already_included))
                without_tags ==
                    SetIter(Ordered(rel_other_fnames \ Range(nodes), StrLess), seed)
                markers == ranked_markers \o without_tags
            IN  tags \o [i \in 1..Len(markers) |-> Marker(markers[i])] :
            tags \in {Flatten([k \in 1..Len(ranked_definitions) |->
                         SetIter(Ordered(definitions(ranked_definitions[k].key), EntryLess), seed)])} }) :
            ranked_definitions \in {SortedByRank(rd)} })

\* An except branch that returns a bare-path marker for every file.
OnZeroDivisionErrorListAll(other_fnames) ==
    [k \in 1..Len(Ordered(other_fnames, StrLess)) |->
        Marker(get_relative_fname(Ordered(other_fnames, StrLess)[k]))]

\* Lines 325-326: except ZeroDivisionError: return [].
OnZeroDivisionError(other_fnames) == <<>>

\* Lines 289-370, after the loop over the files.
RankFrom(acc, other_fnames, mentioned_idents, pr, seed) ==
    The({ The({
        IF PagerankRaises(Range(nodes), DOMAIN acc.personalization)
        THEN [raised |-> "", caught |-> "ZeroDivisionError",
              personalization |-> acc.personalization,
              edges |-> Range(edges), num_edges |-> Len(edges),
              nodes |-> Range(nodes),
              definitions |-> <<>>, scale |-> 1,
              list |-> OnZeroDivisionError(other_fnames),
              cache |-> acc.cache, warned_files |-> acc.warned_files,
              logged |-> acc.logged]
        ELSE The({
             [raised |-> "", caught |-> "",
              personalization |-> acc.personalization,
              edges |-> Range(edges), num_edges |-> Len(edges),
              nodes |-> Range(nodes),
              definitions |-> rd, scale |-> RankScale(edges, nodes),
              list |-> RankedList(acc.defs, rd, nodes, other_fnames, pr,
                                  seed),
              cache |-> acc.cache, warned_files |-> acc.warned_files,
              logged |-> acc.logged] :
             rd \in {RankedDefinitions(edges, nodes,
                                       pagerank(Range(nodes), pr))} }) :
        nodes \in {Nodes(edges)} }) :
        edges \in {Edges(acc.defs, acc.refs, mentioned_idents, seed)} })

\* get_ranked_tags, lines 237-370, for the file set other_fnames: what it
\* raises, the exception of pagerank it caught, the personalization, the
\* edges of the graph and ranked_definitions (ranks as multiples of
\* 1 / scale) it computed, the list it returns, and the tag cache and
\* warned_files after the call.
get_ranked_tags(cache, warned, d, other_fnames, mentioned_fnames, mentioned_idents, pr, seed) ==
    IF other_fnames = {}
    THEN [raised |-> "ZeroDivisionError", caught |-> "",
          personalization |-> <<>>, edges |-> {}, num_edges |-> 0, nodes |-> {},
          definitions |-> <<>>, scale |-> 1, list |-> <<>>,
          cache |-> cache, warned_files |-> warned, logged |-> <<>>]
    ELSE The({ RankFrom(acc, other_fnames, mentioned_idents, pr, seed) :
               acc \in {FileLoop([personalization |-> <<>>,
                                  personalize |->
                                      personalize(Ordered(other_fnames,
                                                          StrLess)),
                                  cache |-> cache, logged |-> <<>>,
                                  warned_files |-> warned,
                                  defs |-> <<>>, refs |-> <<>>],
                                 d, Ordered(other_fnames, StrLess),
                                 mentioned_fnames, 1)} })

(***************************************************************************)
(* The map, repomap.py:55-167 and 518-565.                                 *)
(***************************************************************************)
\* litellm.token_counter at its interface (utils.py:16-23): a count that
\* depends on the text alone, here one token per character.
get_token_count_from_text(text) == Len(text)

\* str.splitlines(keepends=True).
splitlines_keepends(text) ==
    LET n      == Len(text)
        ends   == Ascending({i \in 1..n :
                      /\ text[i] \in LineBreaks
                      /\ ~(text[i] = CR /\ i < n /\ text[i + 1] = LF)})
        start(j) == IF j = 1 THEN 1 ELSE ends[j - 1] + 1
        broken == [j \in 1..Len(ends) |-> SubSeq(text, start(j), ends[j])]
        rest   == SubSeq(text, start(Len(ends) + 1), n)
    IN  IF rest = <<>> THEN broken ELSE Append(broken, rest)

\* Texts shorter than this are counted whole (line 523).
SampleFrom == 200

\* One line in so many hundreds is sampled (line 528).
SampleLines == 100

\* estimate_token_count, lines 518-533.  The quotient of line 532 is a
\* float; its integer part is kept, which compares with an integer budget
\* as the float does.
estimate_token_count(text) ==
    LET len_text  == Len(text)
        lines     == splitlines_keepends(text)
        num_lines == Len(lines)
        step      == Max(num_lines \div SampleLines, 1)
        picked    == Ascending({i \in 1..num_lines : (i - 1) % step = 0})
        sample_text   == Flatten([k \in 1..Len(picked) |-> lines[picked[k]]])
        sample_tokens == get_token_count_from_text(sample_text)
    IN  IF len_text < SampleFrom THEN get_token_count_from_text(text)
        ELSE (sample_tokens * len_text) \div Len(sample_text)

\* ranked_tags[:m], line 153.
Slice(list, m) == SubSeq(list, 1, SliceLen(Len(list), m))

\* to_tree of the prefixes of 0..k entries, each on an empty tree cache.
RECURSIVE PrefixTrees(_, _, _)
PrefixTrees(d, list, k) ==
    IF k < 0 THEN <<>>
    ELSE Append(PrefixTrees(d, list, k - 1),
                to_tree(<<>>, d, SubSeq(list, 1, k)))

\* The tree cache the probes leave (lines 150-153): the keys rendered for
\* any prefix probed, with their texts.
ProbedCache(trees, probes) ==
    LET caches == {trees[probes[i] + 1].cache : i \in 1..Len(probes)}
    IN  [key \in UNION {DOMAIN c : c \in caches} |->
            (CHOOSE c \in caches : key \in DOMAIN c)[key]]

\* get_ranked_tags_map_uncached, lines 120-167, on the ranked list it got:
\* the tree returned (None for none), the prefixes probed and the tree
\* cache after the call.
SearchTrees(d, list, arg, field) ==
    The({ The({ [tree |-> IF s.best_tree = None THEN None
                          ELSE <<trees[s.best_tree[1] + 1].output>>,
                 probes |-> s.probes,
                 tree_cache |-> ProbedCache(trees, s.probes)] :
                s \in {SearchRun(SearchInit(Len(list), arg, field),
                                 [k \in 0..Len(list) |->
                                     estimate_token_count(trees[k + 1].output)])}
              }) :
          trees \in {PrefixTrees(d, list, Len(list))} })

\* The characters that make a basename a file mention on its own (line 556).
NameMarks == {"/", ".", "_", "-"}

\* os.path.basename.
basename(path) ==
    LET cuts == {i \in 1..Len(path) : path[i] = "/"}
    IN  IF cuts = {} THEN path ELSE SubSeq(path, SetMax(cuts) + 1, Len(path))

\* get_file_mentions, lines 545-565, on the words of the text (lines
\* 536-543) and the addable files.
get_file_mentions(words, addable_rel_fnames) ==
    LET named(rel_fname) == \E i \in 1..Len(basename(rel_fname)) :
                                basename(rel_fname)[i] \in NameMarks
        same(rel_fname)  == {o \in addable_rel_fnames :
                                named(o) /\ basename(o) = basename(rel_fname)}
    IN  {rel_fname \in addable_rel_fnames : rel_fname \in words}
        \cup {rel_fname \in addable_rel_fnames :
                 /\ named(rel_fname)
                 /\ same(rel_fname) = {rel_fname}
                 /\ basename(rel_fname) \in words}

\* get_all_relative_files, lines 582-621, git naming the paths tracked:
\* those that are regular files.
get_all_relative_files(d, tracked) ==
    {rel \in tracked : is_file(d, get_absolute_path(rel))}

\* get_all_absolute_files, lines 577-580.
get_all_absolute_files(d, tracked) ==
    {get_absolute_path(rel) : rel \in get_all_relative_files(d, tracked)}

\* Disabled that lets a budget of 0 through.
DisabledNegative(max_map_tokens) == max_map_tokens < 0

\* Line 73: the map is switched off.
Disabled(max_map_tokens) == max_map_tokens <= 0

\* OnRecursionError that leaves the budget as it is.
OnRecursionErrorKeep(self) == self

\* Lines 91-93: the handler of RecursionError.
OnRecursionError(self) == [self EXCEPT !.max_map_tokens = 0]

\* What a call that returned "" at lines 74 or 76 leaves.
Returned(self, out) ==
    [out |-> out, self |-> self, raised |-> "", caught |-> "",
     recursion |-> FALSE, ranked |-> None, probes |-> <<>>]

\* NoFiles that lets an empty file set through.
NoFilesNever(other_files) == FALSE

\* Line 75: not other_files.
NoFiles(other_files) == other_files = {}

\* get_repo_map, lines 70-105.  self is the instance (max_map_tokens,
\* repo_content_prefix, TAGS_CACHE, warned_files, tree_cache); recursion
\* tells whether ranking runs into the interpreter's recursion limit.
\* Gives the string returned, the exception that leaves the call ("" for
\* none: only RecursionError is caught, line 91), the instance after the
\* call, the ranked list if one was made and the prefixes probed.
\* The instance after get_ranked_tags returned or raised.
Ranked(self, r) ==
    [self EXCEPT !.TAGS_CACHE = r.cache, !.warned_files = r.warned_files,
                 !.error_log = @ \o r.logged]

get_repo_map(self, d, other_files, mentioned_fnames, mentioned_idents, pr, seed, recursion) ==
    IF Disabled(self.max_map_tokens) THEN Returned(self, <<>>)
    ELSE IF NoFiles(other_files) THEN Returned(self, <<>>)
    ELSE The({
        IF recursion
        THEN [out |-> <<>>,
              self |-> OnRecursionError(Ranked(self, r)),
              raised |-> "", caught |-> "", recursion |-> TRUE,
              ranked |-> None, probes |-> <<>>]
        ELSE IF r.raised # ""
        THEN [out |-> <<>>,
              self |-> Ranked(self, r),
              raised |-> r.raised, caught |-> "", recursion |-> FALSE,
              ranked |-> None, probes |-> <<>>]
        ELSE The({
            [out |-> IF t.tree = None \/ t.tree[1] = <<>> THEN <<>>
                     ELSE (IF self.repo_content_prefix = None THEN <<>>
                           ELSE self.repo_content_prefix[1]) \o t.tree[1],
             self |-> [Ranked(self, r) EXCEPT !.tree_cache = t.tree_cache],
             raised |-> "", caught |-> r.caught, recursion |-> FALSE,
             ranked |-> <<r.list>>, probes |-> t.probes] :
            t \in {SearchTrees(d, r.list, self.max_map_tokens,
                               self.max_map_tokens)} }) :
        r \in {get_ranked_tags(self.TAGS_CACHE, self.warned_files, d,
                               other_files, mentioned_fnames,
                               mentioned_idents, pr, seed)} })

\* A fallback test that takes any first result.
FalsyNever(repo_map_content) == FALSE

\* Line 65: not repo_map_content.
Falsy(repo_map_content) == repo_map_content = <<>>

\* get_history_aware_repo_map, lines 55-68: the first call's result, or the
\* second's when the first gave "".
get_history_aware_repo_map(self, d, tracked, words, pr, seed, rec1, rec2) ==
    LET mentioned_fnames == get_file_mentions(words,
                                get_all_relative_files(d, tracked))
        other_files      == get_all_absolute_files(d, tracked)
    IN  The({ IF first.raised # "" \/ ~Falsy(first.out) THEN first
              ELSE get_repo_map(first.self, d, other_files, {}, {}, pr, seed,
                                rec2) :
              first \in {get_repo_map(self, d, other_files, mentioned_fnames,
                                      words, pr, seed, rec1)} })

\* The files, working trees, budgets and arguments of the map's behaviours.
File(content) == [kind |-> "file", mtime |-> 0, content |-> content]

Directory == [kind |-> "dir", mtime |-> 0, content |-> 1]

\* A working tree and the ranks of its files.
MapTrees ==
    { [disk |-> (AbsA :> File(2)) @@ (AbsB :> File(3)) @@ (AbsN :> Missing),
       node_rank |-> (RelA :> 1) @@ (RelB :> 2) @@ (RelN :> 1)],
      [disk |-> (AbsA :> File(7)) @@ (AbsB :> Directory) @@ (AbsN :> File(2)),
       node_rank |-> (RelA :> 1) @@ (RelB :> 1) @@ (RelN :> 1)],
      [disk |-> (AbsA :> File(1)) @@ (AbsB :> File(6)) @@ (AbsN :> Missing),
       node_rank |-> (RelA :> 1) @@ (RelB :> 1) @@ (RelN :> 1)],
      [disk |-> (AbsA :> File(4)) @@ (AbsB :> File(4)) @@ (AbsC :> File(5))
                    @@ (AbsN :> Missing),
       node_rank |-> (RelA :> 1) @@ (RelB :> 2) @@ (RelC :> 1)
                         @@ (RelN :> 1)],
      [disk |-> (AbsA :> File(8)) @@ (AbsB :> File(9)) @@ (AbsC :> File(10))
                    @@ (AbsN :> Missing),
       node_rank |-> (RelA :> 2) @@ (RelB :> 2) @@ (RelC :> 1)
                         @@ (RelN :> 1)] }

MapPrefix == <<"r", ":", LF>>

\* The arguments map_tokens and repo_content_prefix of __init__.
MapInstances ==
    { [map_tokens |-> -1, repo_content_prefix |-> None],
      [map_tokens |-> 0, repo_content_prefix |-> None],
      [map_tokens |-> 6, repo_content_prefix |-> None],
      [map_tokens |-> 40, repo_content_prefix |-> <<MapPrefix>>] }

\* The file sets of the calls in a working tree.
MapFileSets(d) == {{}, {AbsB, AbsN}, DOMAIN d}

\* The mentioned files and identifiers of a call.
MapMentions ==
    { [fnames |-> {}, idents |-> {}], [fnames |-> {AbsN}, idents |-> {IdF}],
      [fnames |-> {RelA}, idents |-> {IdF}] }

MapTracked == {{RelA, RelN}, {RelA, RelB, RelC, RelN}}

MapWords == {{}, {RelN, IdF}}

IdleCall ==
    [op |-> "none", other_files |-> {}, mentioned_fnames |-> {},
     mentioned_idents |-> {}, budget |-> 0, raised |-> "", caught |-> "",
     personalization |-> <<>>, edges |-> {}, num_edges |-> 0, nodes |-> {},
     definitions |-> <<>>, scale |-> 1, recursion |-> FALSE, ranked |-> None, probes |-> <<>>, out |-> <<>>]

\* The instance, from its fields.
Self ==
    [max_map_tokens |-> self_max_map_tokens,
     repo_content_prefix |-> self_repo_content_prefix,
     TAGS_CACHE |-> TAGS_CACHE, warned_files |-> warned_files,
     error_log |-> error_log, tree_cache |-> tree_cache]

MapParked ==
    /\ self_repo_content_prefix = None
    /\ warned_files = {}
    /\ error_log = <<>>
    /\ node_rank = <<>>
    /\ call = IdleCall

\* The instance after __init__ (lines 31-53) in a working tree, and the
\* ranks the power iteration gives the tree's files.
MapInit ==
    /\ \E i \in MapInstances :
           /\ self_max_map_tokens = i.map_tokens
           /\ self_repo_content_prefix = i.repo_content_prefix
    /\ \E t \in MapTrees : disk = t.disk /\ node_rank = t.node_rank
    /\ TAGS_CACHE = <<>>
    /\ warned_files = {}
    /\ error_log = <<>>
    /\ tree_cache = <<>>
    /\ call = IdleCall

\* A call of get_ranked_tags.
GetRankedTags ==
    /\ \E other_files \in MapFileSets(disk), m \in MapMentions, seed \in HashSeeds :
         \E r \in {get_ranked_tags(TAGS_CACHE, warned_files, disk, other_files,
                                   m.fnames, m.idents, node_rank, seed)} :
            /\ TAGS_CACHE' = r.cache
            /\ warned_files' = r.warned_files
            /\ error_log' = error_log \o r.logged
            /\ call' = [op |-> "get_ranked_tags", other_files |-> other_files,
                        mentioned_fnames |-> m.fnames,
                        mentioned_idents |-> m.idents,
                        budget |-> self_max_map_tokens, raised |-> r.raised,
                        caught |-> r.caught,
                        personalization |-> r.personalization,
                        edges |-> r.edges, num_edges |-> r.num_edges,
                        nodes |-> r.nodes,
                        definitions |-> r.definitions, scale |-> r.scale,
                        recursion |-> FALSE,
                        ranked |-> IF r.raised = "" THEN <<r.list>> ELSE None,
                        probes |-> <<>>, out |-> <<>>]
    /\ UNCHANGED <<self_max_map_tokens, self_repo_content_prefix, disk, node_rank,
                   tree_cache>>
    /\ UNCHANGED notMap

\* The instance's fields after a call that left the instance new.
Becomes(new) ==
    /\ self_max_map_tokens' = new.max_map_tokens
    /\ TAGS_CACHE' = new.TAGS_CACHE
    /\ warned_files' = new.warned_files
    /\ error_log' = new.error_log
    /\ tree_cache' = new.tree_cache
    /\ UNCHANGED <<self_repo_content_prefix, disk, node_rank>>

\* A call of get_repo_map.
GetRepoMap ==
    /\ \E other_files \in MapFileSets(disk), m \in MapMentions, seed \in HashSeeds,
          recursion \in BOOLEAN :
         \E r \in {get_repo_map(Self, disk, other_files, m.fnames, m.idents,
                                node_rank, seed, recursion)} :
            /\ Becomes(r.self)
            /\ call' = [op |-> "get_repo_map", other_files |-> other_files,
                        mentioned_fnames |-> m.fnames,
                        mentioned_idents |-> m.idents,
                        budget |-> self_max_map_tokens, raised |-> r.raised,
                        caught |-> r.caught, personalization |-> <<>>,
                        edges |-> {}, num_edges |-> 0, nodes |-> {},
                        definitions |-> <<>>, scale |-> 1,
                        recursion |-> r.recursion, ranked |-> r.ranked,
                        probes |-> r.probes, out |-> r.out]
    /\ UNCHANGED notMap

\* A call of get_history_aware_repo_map on a text of the given words.
GetHistoryAwareRepoMap ==
    /\ \E tracked \in MapTracked, words \in MapWords, seed \in HashSeeds,
          rec1 \in BOOLEAN, rec2 \in BOOLEAN :
         \E r \in {get_history_aware_repo_map(Self, disk, tracked, words,
                                              node_rank, seed, rec1,
                                              rec2)} :
            /\ Becomes(r.self)
            /\ call' = [op |-> "get_history_aware_repo_map",
                        other_files |-> get_all_absolute_files(disk, tracked),
                        mentioned_fnames |->
                            get_file_mentions(words,
                                get_all_relative_files(disk, tracked)),
                        mentioned_idents |-> words,
                        budget |-> self_max_map_tokens, raised |-> r.raised,
                        caught |-> r.caught, personalization |-> <<>>,
                        edges |-> {}, num_edges |-> 0, nodes |-> {},
                        definitions |-> <<>>, scale |-> 1,
                        recursion |-> r.recursion, ranked |-> r.ranked,
                        probes |-> r.probes, out |-> r.out]
    /\ UNCHANGED notMap

MapNext == GetRankedTags \/ GetRepoMap \/ GetHistoryAwareRepoMap

(***************************************************************************)
(* The mention extractor, repomap.py:535-565, on a text.                   *)
(***************************************************************************)
\* The characters str.split() splits on, among those used.
Whitespace == {" ", LF, CR}

\* Line 539: the sentence punctuation dropped from the end of a word.
Punctuation == {",", ".", "!", ";", ":"}

\* The backquote, a character no string of this module can hold.
Backquote == "backquote"

\* Line 542: all kinds of quotes.
Quotes == {"\"", "'", Backquote}

\* str.split(): the maximal runs of characters that are no whitespace.
split(text) ==
    { SubSeq(text, x[1], x[2]) :
        x \in { y \in (1..Len(text)) \X (1..Len(text)) :
                  /\ y[1] <= y[2]
                  /\ \A k \in y[1]..y[2] : text[k] \notin Whitespace
                  /\ y[1] = 1 \/ text[y[1] - 1] \in Whitespace
                  /\ y[2] = Len(text) \/ text[y[2] + 1] \in Whitespace } }

\* str.rstrip(chars) and str.lstrip(chars).
RECURSIVE rstrip(_, _)
rstrip(word, chars) ==
    IF word # <<>> /\ word[Len(word)] \in chars
    THEN rstrip(SubSeq(word, 1, Len(word) - 1), chars)
    ELSE word

RECURSIVE lstrip(_, _)
lstrip(word, chars) ==
    IF word # <<>> /\ word[1] \in chars
    THEN lstrip(SubSeq(word, 2, Len(word)), chars)
    ELSE word

\* str.strip(chars).
strip(word, chars) == lstrip(rstrip(word, chars), chars)

\* Words that loses the quotes before the punctuation.
MentionWordsQuotesFirst(text) ==
    { rstrip(strip(word, Quotes), Punctuation) : word \in split(text) }

\* Lines 536-543: the words of the text, without the punctuation at their
\* end and then without the quotes around them.
MentionWords(text) ==
    { strip(rstrip(word, Punctuation), Quotes) : word \in split(text) }

\* The paths, the words and the texts of the extractor's behaviours.
PathAB == <<"a", ".", "b">>

PathDAB == <<"d", "/", "a", ".", "b">>

PathDN == <<"d", "/", "n">>

MentionPaths == {PathAB, PathDAB, PathDN, RelN}

MentionRawWords ==
    { PathAB, PathDAB, RelN,
      <<"\"">> \o PathAB \o <<"\"", ".">>,
      <<"'">> \o PathDAB \o <<"'", ";">>,
      PathAB \o <<".", Backquote>>,
      <<",">> }

MaxWords == 2

RECURSIVE TextsOf(_)
TextsOf(n) ==
    IF n = 0 THEN {<<>>}
    ELSE TextsOf(n - 1) \cup
         { t \o sep \o w : t \in TextsOf(n - 1), sep \in {<<" ">>, <<LF, " ">>},
                           w \in MentionRawWords }

MentionTexts == TextsOf(MaxWords)

IdleMention == [op |-> "none", text |-> <<>>, addable |-> {}, out |-> {}]

MentionParked == mention = IdleMention

\* A text and the addable files of a working tree, before the call.
MentionInit ==
    \E text \in MentionTexts, addable \in SUBSET MentionPaths :
        mention = [IdleMention EXCEPT !.text = text, !.addable = addable]

\* The call of get_file_mentions on the text.
GetFileMentions ==
    /\ mention.op = "none"
    /\ mention' = [mention EXCEPT
                      !.op = "get_file_mentions",
                      !.out = get_file_mentions(MentionWords(mention.text),
                                                mention.addable)]
    /\ UNCHANGED notMention

MentionNext == GetFileMentions

(***************************************************************************)
(* The trajectory formatter, utils/trajectory.py.  A message is a record   *)
(* of its role and content; a content is a string or a list of text        *)
(* items.  The messages carry no tool calls.                               *)
(***************************************************************************)
Str(text) == [type |-> "str", str |-> text]

TextContent(text) == [type |-> "text", text |-> text]

List(items) == [type |-> "list", list |-> items]

Message(role, content) == [role |-> role, content |-> content]

\* Lines 48-64, on a content whose items are text items.
_convert_content(content) ==
    IF content.type = "list"
    THEN join(<<LF>>, [i \in 1..Len(content.list) |-> content.list[i].text])
    ELSE content.str

\* Lines 150-154 and 159-163: the message a run of user messages becomes.
MergedMessage(current_user_messages) ==
    Message("user",
            Str(join(<<LF>>, [i \in 1..Len(current_user_messages) |->
                        _convert_content(current_user_messages[i].content)])))

\* A loop body that flushes at every user message.
MergeStepEach(st, message) ==
    [st EXCEPT !.merged = Append(@, IF message.role = "user"
                                    THEN MergedMessage(<<message>>)
                                    ELSE message)]

\* Lines 146-156: the body of the loop over the messages.
MergeStep(st, message) ==
    IF message.role = "user"
    THEN [st EXCEPT !.current_user_messages = Append(@, message)]
    ELSE [merged |->
              Append(IF st.current_user_messages # <<>>
                     THEN Append(st.merged,
                                 MergedMessage(st.current_user_messages))
                     ELSE st.merged, message),
          current_user_messages |-> <<>>]

RECURSIVE MergeLoop(_, _, _)
MergeLoop(st, trajectory, i) ==
    IF i > Len(trajectory) THEN st
    ELSE MergeLoop(MergeStep(st, trajectory[i]), trajectory, i + 1)

\* Lines 133-164.
_merge_user_messages(trajectory) ==
    LET st == MergeLoop([merged |-> <<>>, current_user_messages |-> <<>>],
                        trajectory, 1)
    IN  IF st.current_user_messages # <<>>
        THEN Append(st.merged, MergedMessage(st.current_user_messages))
        ELSE st.merged

\* Lines 199-201: the role as the turn header shows it.
HeaderRole(role) ==
    IF role = "tool" THEN "TOOL EXECUTION RESULT"
    ELSE IF role = "user" THEN "USER"
    ELSE IF role = "assistant" THEN "ASSISTANT"
    ELSE "SYSTEM"

\* Lines 190-215: the elements that the message of index i (from 0) adds
\* to the output: the separator, the turn header and the content.
TurnOutput(message, i) ==
    <<[item |-> "separator"],
      [item |-> "turn_header", turn_id |-> (i \div 2) + 1,
       role |-> HeaderRole(message.role)],
      [item |-> "content", text |-> _convert_content(message.content)]>>

\* Lines 166-221: the list output, whose elements the function returns one
\* to a line.
format_trajectory(trajectory) ==
    LET system == trajectory # <<>> /\ trajectory[1].role = "system"
        head   == IF system
                  THEN <<[item |-> "system_header"],
                         [item |-> "content",
                          text |-> _convert_content(trajectory[1].content)
                                       \o <<LF>>]>>
                  ELSE <<>>
        merged_trajectory ==
            _merge_user_messages(IF system THEN Tail(trajectory)
                                 ELSE trajectory)
    IN  head
        \o Flatten([i \in 1..Len(merged_trajectory) |->
                        TurnOutput(merged_trajectory[i], i - 1)])
        \o <<[item |-> "separator"]>>

Roles == {"system", "user", "assistant", "tool"}

Contents ==
    {Str(<<"a">>), Str(<<"b">>),
     List(<<TextContent(<<"a">>), TextContent(<<"b">>)>>)}

Messages == {Message(role, content) : role \in Roles, content \in Contents}

MaxMessages == 3

Trajectories == UNION {[1..n -> Messages] : n \in 0..MaxMessages}

IdleFormatter ==
    [op |-> "none", trajectory |-> <<>>, merged |-> <<>>, output |-> <<>>]

FormatterParked == formatted = IdleFormatter

FormatterInit ==
    \E trajectory \in Trajectories :
        formatted = [IdleFormatter EXCEPT !.trajectory = trajectory]

\* The call of _merge_user_messages on the trajectory.
MergeUserMessages ==
    /\ formatted.op = "none"
    /\ formatted' = [formatted EXCEPT
                        !.op = "_merge_user_messages",
                        !.merged = _merge_user_messages(formatted.trajectory)]
    /\ UNCHANGED notFormatter

\* The call of format_trajectory on the trajectory.
FormatTrajectory ==
    /\ formatted.op = "none"
    /\ formatted' = [formatted EXCEPT
                        !.op = "format_trajectory",
                        !.output = format_trajectory(formatted.trajectory)]
    /\ UNCHANGED notFormatter

FormatterNext == MergeUserMessages \/ FormatTrajectory

IdleSearch == SearchInit(0, 0, 0)

BudgetParked ==
    /\ self_max_map_tokens = 0
    /\ est = <<>>
    /\ search = IdleSearch
    /\ bpc = "off"

CacheParked ==
    /\ disk = <<>>
    /\ clock = 0
    /\ TAGS_CACHE = <<>>
    /\ frame = <<>>

RenderParked ==
    /\ ranked_tags = <<>>
    /\ tree_cache = <<>>
    /\ tree_in = <<>>
    /\ tree_out = None
    /\ tree_rendered = <<>>

BudgetInit ==
    /\ self_max_map_tokens \in FieldBudgets
    /\ \E n \in 0..MaxTags : est \in Estimates(n)
    /\ search = IdleSearch
    /\ bpc = "idle"

\* A call of get_ranked_tags_map_uncached on a ranked list of Len(est)-1
\* entries with max_map_tokens = arg.
BudgetStart ==
    /\ bpc \in {"idle", "done"}
    /\ \E arg \in Budgets :
           search' = SearchInit(Cardinality(DOMAIN est) - 1, arg, self_max_map_tokens)
    /\ bpc' = "loop"
    /\ UNCHANGED <<self_max_map_tokens, est>>
    /\ UNCHANGED notBudget

BudgetIterate ==
    /\ bpc = "loop"
    /\ LoopCond(search)
    /\ search' = LoopBody(search, est)
    /\ UNCHANGED <<self_max_map_tokens, est, bpc>>
    /\ UNCHANGED notBudget

BudgetReturn ==
    /\ bpc = "loop"
    /\ ~LoopCond(search)
    /\ bpc' = "done"
    /\ UNCHANGED <<self_max_map_tokens, est, search>>
    /\ UNCHANGED notBudget

BudgetNext == BudgetStart \/ BudgetIterate \/ BudgetReturn

InitBudget ==
    /\ BudgetInit /\ CacheParked /\ RenderParked /\ MapParked /\ MentionParked
    /\ FormatterParked

SpecBudget == InitBudget /\ [][BudgetNext]_vars

\* The loop of lines 152-165 runs in the caller's thread with nothing to
\* wait for: an enabled iteration or return is taken.
SpecBudgetFair ==
    SpecBudget /\ WF_vars(BudgetIterate) /\ WF_vars(BudgetReturn)

InitCache ==
    /\ CacheInit /\ BudgetParked /\ RenderParked /\ MapParked /\ MentionParked
    /\ FormatterParked

SpecCache == InitCache /\ [][CacheNext]_vars

InitRender ==
    /\ RenderInit /\ BudgetParked /\ MapParked /\ MentionParked
    /\ FormatterParked
    /\ TAGS_CACHE = <<>>
    /\ frame = <<>>

SpecRender == InitRender /\ [][RenderNext]_vars

InitMap ==
    /\ MapInit
    /\ est = <<>> /\ search = IdleSearch /\ bpc = "off"
    /\ clock = 0 /\ frame = <<>>
    /\ ranked_tags = <<>> /\ tree_in = <<>> /\ tree_out = None
    /\ tree_rendered = <<>>
    /\ MentionParked /\ FormatterParked

SpecMap == InitMap /\ [][MapNext]_vars

InitMention ==
    /\ MentionInit /\ BudgetParked /\ CacheParked /\ RenderParked
    /\ MapParked /\ FormatterParked

SpecMention == InitMention /\ [][MentionNext]_vars

InitFormatter ==
    /\ FormatterInit /\ BudgetParked /\ CacheParked /\ RenderParked
    /\ MapParked /\ MentionParked

SpecFormatter == InitFormatter /\ [][FormatterNext]_vars

(***************************************************************************)
(* Claims about the budget search.                                         *)
(***************************************************************************)
NumTags == Cardinality(DOMAIN est) - 1

Fits(k) == est[k] < search.max_map_tokens

\* The largest estimate among the prefixes that fit the budget, 0 if none.
MaxFit == SetMax({est[k] : k \in {j \in 0..NumTags : Fits(j)}})

NonDecreasing(e) ==
    \A i, j \in DOMAIN e : i <= j => e[i] <= e[j]

StrictlyIncreasing(e) ==
    \A i, j \in DOMAIN e : i < j => e[i] < e[j]

\* C2 (budget safety): a rendering kept as best_tree, and so any rendering
\* the search returns, has an estimated token count strictly below the
\* budget in effect (max_map_tokens after line 130).
C2_BudgetSafety ==
    search.best_tree # None =>
        /\ est[search.best_tree[1]] < search.max_map_tokens
        /\ search.best_tree_tokens = est[search.best_tree[1]]

\* A search has returned a rendering although some prefix exceeds the budget.
C2_Witness ==
    /\ bpc = "done"
    /\ search.best_tree # None
    /\ \E k \in 0..NumTags : ~Fits(k)

\* C3 as stated (budget optimality for every estimate function): with a
\* positive budget the search returns the rendering of largest estimate
\* among all prefixes that fit, and nothing only if no prefix of a
\* positive estimate fits.
C3_OptimalAnyEstimate ==
    (bpc = "done" /\ search.max_map_tokens > 0) =>
        /\ search.best_tree_tokens = MaxFit
        /\ (search.best_tree = None) <=> (MaxFit = 0)

\* C3 amended: the same, when the estimates do not decrease with the prefix
\* length.
C3_OptimalMonotone ==
    (bpc = "done" /\ search.max_map_tokens > 0 /\ NonDecreasing(est)) =>
        /\ search.best_tree_tokens = MaxFit
        /\ (search.best_tree = None) <=> (MaxFit = 0)
        /\ search.best_tree # None => est[search.best_tree[1]] = MaxFit

\* Non-decreasing estimates, a list of at least two entries, a prefix that
\* does not fit, and a rendering returned that is not the whole list.
C3_Witness ==
    /\ bpc = "done"
    /\ search.max_map_tokens > 0
    /\ NonDecreasing(est)
    /\ NumTags >= 2
    /\ \E k \in 0..NumTags : ~Fits(k)
    /\ search.best_tree # None
    /\ Len(search.probes) >= 2

\* The prefix length the search selects for the budget m on the same list
\* and the same estimates.
SelectedFor(m) == SelectedK(SearchRun(SearchInit(NumTags, m, m), est))

\* C4 as stated (monotonic budget for fixed estimates): a smaller budget
\* never selects a longer prefix.
C4_MonotoneAnyEstimate ==
    bpc = "done" =>
        \A m \in Budgets :
            m <= search.max_map_tokens => SelectedFor(m) <= SelectedK(search)

\* C4 amended: the same, when the estimates strictly increase with the
\* prefix length.
C4_MonotoneStrict ==
    (bpc = "done" /\ StrictlyIncreasing(est)) =>
        \A m \in Budgets :
            m <= search.max_map_tokens => SelectedFor(m) <= SelectedK(search)

\* Strictly increasing estimates and a smaller budget that selects a
\* strictly shorter, non-empty prefix after a different first probe.
C4_Witness ==
    /\ bpc = "done"
    /\ StrictlyIncreasing(est)
    /\ \E m \in Budgets :
           /\ m < search.max_map_tokens
           /\ Min(m \div SeedDivisor, NumTags) < search.probes[1]
           /\ 0 < SelectedFor(m)
           /\ SelectedFor(m) < SelectedK(search)

\* floor(log2(n)) for n >= 1.
RECURSIVE Log2Floor(_)
Log2Floor(n) == IF n <= 1 THEN 0 ELSE 1 + Log2Floor(n \div 2)

\* The probes of a search are pairwise distinct and, on a list of at least
\* one entry, at most floor(log2(n)) + 2; while the loop runs with a
\* positive budget, its next probe is a length of the interval, in 0..n.
C27_Probes ==
    bpc \in {"loop", "done"} =>
        /\ \A i, j \in 1..Len(search.probes) :
               search.probes[i] = search.probes[j] => i = j
        /\ search.num_tags >= 1 =>
               Len(search.probes) <= Log2Floor(search.num_tags) + 2
        /\ (bpc = "loop" /\ LoopCond(search) /\ search.max_map_tokens > 0) =>
               /\ search.middle \in search.lower_bound..search.upper_bound
               /\ search.lower_bound >= 0
               /\ search.upper_bound <= search.num_tags

\* An iteration leaves an interval inside the one it found, and shorter.
C27_Shrinks ==
    BudgetIterate =>
        /\ search'.lower_bound >= search.lower_bound
        /\ search'.upper_bound <= search.upper_bound
        /\ search'.upper_bound - search'.lower_bound
               < search.upper_bound - search.lower_bound

\* C27 (budget search termination): the search loop of
\* get_ranked_tags_map_uncached terminates; the interval [lower_bound,
\* upper_bound] strictly shrinks at every iteration; no prefix length is
\* rendered twice; every probed prefix length lies in [0, n] when
\* max_map_tokens > 0; on a list of n >= 1 entries at most
\* floor(log2(n)) + 2 prefixes are rendered.
C27_SearchTerminates ==
    /\ []C27_Probes
    /\ [][C27_Shrinks]_vars
    /\ (bpc = "loop") ~> (bpc = "done")

\* A search on three entries returned after three probes, the seeded one
\* and two of the bisection.
C27_Witness ==
    /\ bpc = "done"
    /\ search.num_tags = 3
    /\ search.max_map_tokens > 0
    /\ Len(search.probes) = 3
    /\ search.probes[1] = 1

(***************************************************************************)
(* Claims about the tag cache.                                             *)
(***************************************************************************)
\* The call of p is at the test of lines 378-381 and the entry it finds has
\* the mtime the call read.
FindsCurrentEntry(p) ==
    /\ frame[p].pc = "lookup"
    /\ frame[p].fname \in DOMAIN TAGS_CACHE
    /\ <<TAGS_CACHE[frame[p].fname].mtime>> = frame[p].file_mtime

\* C6 (cache correctness): a get_tags call that finds an entry whose stored
\* mtime equals the mtime it read goes on to return the stored tags; neither
\* of its steps runs the extractor or changes the cache.
C6_CacheHit ==
    [][\A p \in Procs :
        /\ (FindsCurrentEntry(p) /\ frame'[p] # frame[p]) =>
               /\ frame'[p].pc = "hit"
               /\ frame'[p].parsed = 0
               /\ TAGS_CACHE' = TAGS_CACHE
        /\ (frame[p].pc = "hit" /\ frame'[p] # frame[p]) =>
               /\ frame'[p].pc = "done"
               /\ frame'[p].data = TAGS_CACHE[frame[p].fname].data
               /\ frame'[p].parsed = 0
               /\ TAGS_CACHE' = TAGS_CACHE]_vars

\* After a modification of the file, a call has returned the stored,
\* non-empty tags without running the extractor.
C6_Witness ==
    \E p \in Procs :
        /\ frame[p].pc = "done"
        /\ frame[p].file_mtime # None
        /\ frame[p].file_mtime[1] >= 1
        /\ frame[p].parsed = 0
        /\ frame[p].data # <<>>
        /\ frame[p].data = TAGS_CACHE[frame[p].fname].data

\* C7 (cache consistency under concurrent modification): an entry whose
\* stored mtime is the file's current mtime holds the tags of the file's
\* current content.
C7_CacheConsistent ==
    \A f \in DOMAIN TAGS_CACHE :
        get_mtime(disk, f) = <<TAGS_CACHE[f].mtime>> =>
            TAGS_CACHE[f].data =
                get_tags_raw(f, get_relative_fname(f), ContentOf(disk, f))

\* A race has happened (a process returned tags that are not those of the
\* current content, read under an older mtime) and the entry is current
\* again.
C7_Witness ==
    \E f \in DOMAIN TAGS_CACHE, p \in Procs :
        /\ get_mtime(disk, f) = <<TAGS_CACHE[f].mtime>>
        /\ TAGS_CACHE[f].mtime >= 1
        /\ TAGS_CACHE[f].data # <<>>
        /\ frame[p].pc = "done"
        /\ frame[p].fname = f
        /\ frame[p].parsed = 1
        /\ frame[p].file_mtime # get_mtime(disk, f)
        /\ frame[p].data = TAGS_CACHE[f].data

(***************************************************************************)
(* Claims about the renderer.                                              *)
(***************************************************************************)
\* The lines of a text as its reader counts them: the pieces between
\* newline characters.
LinesByLF(text) ==
    LET n    == Len(text)
        ends == Ascending({i \in 1..n : text[i] = LF})
        start(j) == IF j = 1 THEN 1 ELSE ends[j - 1] + 1
    IN  [j \in 1..(Len(ends) + 1) |->
            SubSeq(text, start(j), IF j > Len(ends) THEN n ELSE ends[j] - 1)]

LongestLine(text) ==
    LET lines == LinesByLF(text)
    IN  SetMax({Len(lines[i]) : i \in 1..Len(lines)})

\* C8 (line truncation): no line of a rendering returned by to_tree has
\* more than 100 characters.
C8_LineTruncation ==
    tree_out # None => LongestLine(tree_out[1]) <= LineLimit

\* A rendering of a file whose content has a line of more than 100
\* characters, and of a path of more than 100 characters, both cut to 100.
C8_Witness ==
    /\ tree_out # None
    /\ LongestLine(tree_out[1]) = LineLimit
    /\ \E i \in 1..Len(tree_in) :
           /\ IsTag(tree_in[i])
           /\ tree_in[i].line = 0
           /\ disk[tree_in[i].fname].content = 6
    /\ \E i \in 1..Len(tree_in) : tree_in[i] = Marker(RelLong)

\* The relative paths of the entries of a ranked list.
ListedFiles(list) == {list[i].rel_fname : i \in 1..Len(list)}

\* The Tags of a file among the entries, and the section of the file: the
\* path, a colon and the rendering of all the lines of its Tags, or the bare
\* path after an empty line when it has no Tag.
TagsOf(tags, rel_fname) ==
    {e \in Range(tags) : IsTag(e) /\ e.rel_fname = rel_fname}

SectionOf(d, tags, rel_fname) ==
    LET mine  == TagsOf(tags, rel_fname)
        abs   == (CHOOSE e \in mine : TRUE).fname
        text  == read_text(d, abs)
        code  == IF text # <<>> /\ text[Len(text)] = LF THEN text
                 ELSE text \o <<LF>>
        lines == splitlines(code)
        want  == {e.line : e \in mine} \cap (0..(Len(lines) - 1))
    IN  IF mine = {} THEN <<LF>> \o rel_fname \o <<LF>>
        ELSE rel_fname \o <<":", LF>> \o LinesFrom(lines, want, 0)

\* One section per relative path of the entries, in ascending order of
\* path, cut to the line limit.
SectionsOf(d, tags) ==
    LET files == Ordered(ListedFiles(tags), StrLess)
    IN  Truncate(Flatten([k \in 1..Len(files) |->
                            SectionOf(d, tags, files[k])]))

\* C21 (rendering is order-insensitive and lexicographic): what to_tree
\* returns depends on the entries of the list only, not on their order: it
\* is one section per relative path, in ascending order of path, each
\* section of a file with Tags rendering all the lines of its Tags.
C21_SortedSections ==
    (tree_out # None /\ tree_in # <<>>) =>
        tree_out[1] = SectionsOf(disk, tree_in)

\* A rendering of a list in descending order: the Tag of a file, then a
\* Tag of a file of a smaller path, whose section comes first.
C21_Witness ==
    /\ tree_out # None
    /\ Len(tree_in) = 2
    /\ IsTag(tree_in[1]) /\ IsTag(tree_in[2])
    /\ StrLess(tree_in[2].rel_fname, tree_in[1].rel_fname)
    /\ tree_out[1] = SectionsOf(disk, tree_in)
    /\ tree_out[1] = to_tree(<<>>, disk, Reverse(tree_in)).output
    /\ Len(tree_out[1]) > Len(tree_in[1].rel_fname) + Len(tree_in[2].rel_fname) + 4

\* The Tags of the ranked list that a key of the tree cache can stand
\* for: those of the key's file, when each line of the key is the line of
\* one of them.
KeyTags(key) ==
    LET tags == {e \in Range(ranked_tags) :
                    IsTag(e) /\ e.rel_fname = key[1]}
    IN  IF Range(key[2]) \subseteq {e.line : e \in tags} THEN tags ELSE {}

\* C30 (render cache scope): since the cache was emptied at the start of
\* the top-level call the renderer ran at most once per key (relative
\* path, sorted lines of interest); the cache holds the rendered keys with
\* the text rendered, which a later request for the key is answered with;
\* every key is one of the call's own ranked list, none of an earlier
\* call.
C30_RenderCacheScope ==
    /\ \A i, j \in 1..Len(tree_rendered) :
           tree_rendered[i] = tree_rendered[j] => i = j
    /\ DOMAIN tree_cache = Range(tree_rendered)
    /\ \A key \in DOMAIN tree_cache :
           /\ key[2] = SortSeq(key[2], <)
           /\ KeyTags(key) # {}
           /\ \A e \in KeyTags(key) :
                  LET text == read_text(disk, e.fname)
                  IN  tree_cache[key] =
                          TreeContextFormat(IF text # <<>> /\ text[Len(text)] = LF
                                            THEN text ELSE text \o <<LF>>,
                                            key[2])
    /\ (tree_out # None /\ tree_in # <<>>) =>
           \A i \in 1..Len(tree_in) :
               IsTag(tree_in[i]) =>
                   \E key \in DOMAIN tree_cache : key[1] = tree_in[i].rel_fname

\* The section of b.py was rendered for the prefix of one entry and that
\* of a.py for the prefix of two, whose text holds both: the renderer ran
\* for b.py before a.py, which sorts first.
C30_Witness ==
    /\ tree_out # None
    /\ Len(tree_in) = 2
    /\ IsTag(tree_in[1]) /\ tree_in[1].rel_fname = RelB
    /\ IsTag(tree_in[2]) /\ tree_in[2].rel_fname = RelA
    /\ Len(tree_rendered) = 2
    /\ tree_rendered[1][1] = RelB /\ tree_rendered[2][1] = RelA
    /\ tree_out[1] = SectionsOf(disk, tree_in)

(***************************************************************************)
(* Claims about ranking and the map.                                       *)
(***************************************************************************)
IsMapCall(c) == c.op \in {"get_repo_map", "get_history_aware_repo_map"}

\* C1: the list get_ranked_tags returns for a non-empty file set holds
\* every file of the set, as the file of a Tag or as a bare-path marker.
C1_Completeness ==
    (call.op = "get_ranked_tags" /\ call.other_files # {} /\ call.ranked # None)
        => \A f \in call.other_files :
               get_relative_fname(f) \in ListedFiles(call.ranked[1])

\* C5: a get_repo_map call that follows one with the same file set,
\* mentions and budget on the same working tree returns the same string.
C5_Determinism ==
    [][ ( /\ call.op = "get_repo_map" /\ call'.op = "get_repo_map"
          /\ call'.other_files = call.other_files
          /\ call'.mentioned_fnames = call.mentioned_fnames
          /\ call'.mentioned_idents = call.mentioned_idents
          /\ call'.budget = call.budget
          /\ ~call.recursion /\ ~call'.recursion
          /\ disk' = disk )
        => call'.out = call.out ]_vars

\* C9 as stated: with a budget <= 0 or an empty ranked list get_repo_map
\* returns "" and the search has probed nothing (no to_tree call, no token
\* count).
C9_ImmediateOnEmptyList ==
    (call.op = "get_repo_map" /\ (call.budget <= 0 \/ call.ranked = <<(<<>>)>>))
        => (call.out = <<>> /\ call.probes = <<>>)

\* C9, amended: with a budget <= 0 get_repo_map returns "" without ranking
\* and without a probe; with an empty ranked list it returns "" after the
\* one probe of the empty prefix, which renders nothing.
C9_DisabledOrEmpty ==
    call.op = "get_repo_map" =>
        /\ call.budget <= 0 =>
               (call.out = <<>> /\ call.ranked = None /\ call.probes = <<>>)
        /\ call.ranked = <<(<<>>)>> =>
               (call.out = <<>> /\ call.probes = <<0>> /\ tree_cache = <<>>)

\* A get_repo_map call with a positive budget on a non-empty file set whose
\* ranked list came out empty.
C9_Witness ==
    /\ call.op = "get_repo_map"
    /\ call.budget > 0
    /\ call.other_files # {}
    /\ call.ranked = <<(<<>>)>>
    /\ call.probes = <<0>>

\* C10: a call in which ranking raises RecursionError returns "" and
\* leaves the budget 0; a budget of 0 stays 0, and a map call made with it
\* returns "" without ranking (no list, no probe, the tag cache untouched).
C10_StickySoftFailure ==
    [][ /\ (IsMapCall(call') /\ call'.recursion)
            => (call'.out = <<>> /\ call'.raised = ""
                /\ self_max_map_tokens' = 0)
        /\ self_max_map_tokens = 0 => self_max_map_tokens' = 0
        /\ (self_max_map_tokens = 0 /\ IsMapCall(call'))
            => (call'.out = <<>> /\ call'.ranked = None /\ call'.probes = <<>>
                /\ TAGS_CACHE' = TAGS_CACHE) ]_vars

\* The instance built with a prefix has the budget 40: its budget is 0 now
\* and a later get_repo_map call on a non-empty file set found it 0.
C10_Witness ==
    /\ self_repo_content_prefix # None
    /\ self_max_map_tokens = 0
    /\ call.op = "get_repo_map"
    /\ call.budget = 0
    /\ ~call.recursion
    /\ call.other_files # {}

\* C11: no failure propagates.  Whatever the working tree holds (missing
\* files, directories, files of an unsupported language), whatever the file
\* set (the empty one included), the budget and the outcome of ranking
\* (ZeroDivisionError, RecursionError), get_repo_map and
\* get_history_aware_repo_map return a string and raise nothing.
C11_NoFailurePropagates == IsMapCall(call) => call.raised = ""

\* A call on a tree with a directory and a file of an unsupported language
\* whose ranking met the ZeroDivisionError, and a call on no file at all.
C11_Witness ==
    /\ IsMapCall(call)
    /\ call.raised = ""
    /\ \/ /\ AbsB \in warned_files
          /\ call.ranked = <<(<<>>)>>
          /\ call.mentioned_fnames # {}
       \/ /\ ~Pool[disk[AbsA].content].code
          /\ AbsA \in call.other_files
          /\ call.out # <<>>
       \/ /\ call.other_files = {}
          /\ call.budget > 0

\* C12: division by zero in ranking.  When pagerank raises
\* ZeroDivisionError, get_ranked_tags returns the empty list, also for a
\* file set that is not empty, and get_repo_map returns "" and leaves
\* max_map_tokens as it was before the call.
C12_ZeroDivision ==
    call.caught = "ZeroDivisionError" =>
        /\ call.raised = ""
        /\ call.ranked = <<(<<>>)>>
        /\ call.op = "get_repo_map" =>
               /\ call.out = <<>>
               /\ self_max_map_tokens = call.budget

\* A get_repo_map with a positive budget on files that exist, whose ranking
\* met the ZeroDivisionError.
C12_Witness ==
    /\ call.op = "get_repo_map"
    /\ call.caught = "ZeroDivisionError"
    /\ call.budget > 0
    /\ \E f \in call.other_files : is_file(disk, f)

\* C13 (missing file in the tag cache): a get_tags call on a path that is
\* missing when its mtime is read returns the empty sequence at once: it
\* does not run the extractor and leaves the cache, the path's own entry
\* included, as it was.
C13_MissingFile ==
    [][\A p \in Procs :
        (/\ frame[p].pc \in {"idle", "done"}
         /\ frame'[p] # frame[p]
         /\ disk[frame'[p].fname].kind = "missing") =>
            /\ frame'[p].pc = "done"
            /\ frame'[p].data = <<>>
            /\ frame'[p].parsed = 0
            /\ TAGS_CACHE' = TAGS_CACHE]_vars

\* A call has returned nothing for a deleted file whose entry, with its
\* tags, is still in the cache.
C13_Witness ==
    \E p \in Procs :
        /\ frame[p].pc = "done"
        /\ frame[p].file_mtime = None
        /\ frame[p].data = <<>>
        /\ disk[frame[p].fname].kind = "missing"
        /\ frame[p].fname \in DOMAIN TAGS_CACHE
        /\ TAGS_CACHE[frame[p].fname].data # <<>>

MissesEntry(p) ==
    /\ frame[p].pc = "lookup"
    /\ \/ frame[p].fname \notin DOMAIN TAGS_CACHE
       \/ <<TAGS_CACHE[frame[p].fname].mtime>> # frame[p].file_mtime

\* C14 (cache miss): a get_tags call that finds no entry for the path, or
\* one whose stored mtime is not the mtime it read, runs the extractor
\* exactly once, then overwrites the path's entry with the mtime it read
\* and the tags just extracted, returns those tags, and leaves the entries
\* of all other paths as they were.
C14_CacheMiss ==
    [][\A p \in Procs :
        /\ (MissesEntry(p) /\ frame'[p] # frame[p]) =>
               /\ frame'[p].pc = "miss"
               /\ frame'[p].parsed = 0
               /\ TAGS_CACHE' = TAGS_CACHE
        /\ (frame[p].pc = "miss" /\ frame'[p] # frame[p]) =>
               /\ frame'[p].pc = "store"
               /\ frame'[p].parsed = 1
               /\ TAGS_CACHE' = TAGS_CACHE
        /\ (frame[p].pc = "store" /\ frame'[p] # frame[p]) =>
               /\ frame'[p].pc = "done"
               /\ frame'[p].parsed = 1
               /\ frame'[p].data = frame[p].data
               /\ DOMAIN TAGS_CACHE' = DOMAIN TAGS_CACHE \cup {frame[p].fname}
               /\ TAGS_CACHE'[frame[p].fname] =
                      [mtime |-> frame[p].file_mtime[1],
                       data |-> frame[p].data]
               /\ \A k \in DOMAIN TAGS_CACHE \ {frame[p].fname} :
                      TAGS_CACHE'[k] = TAGS_CACHE[k]]_vars

\* A call has replaced the entry of a modified file by the tags it
\* extracted, and the other path's entry is in the cache.
C14_Witness ==
    \E p \in Procs :
        /\ frame[p].pc = "done"
        /\ frame[p].parsed = 1
        /\ frame[p].file_mtime # None
        /\ frame[p].file_mtime[1] >= 1
        /\ frame[p].data # <<>>
        /\ TAGS_CACHE[frame[p].fname] =
               [mtime |-> frame[p].file_mtime[1], data |-> frame[p].data]
        /\ DOMAIN TAGS_CACHE = CacheFiles

\* The relative paths of the existing files of a call's file set that are
\* among its mentioned files.
MentionedRel(c) ==
    { get_relative_fname(f) :
        f \in { g \in c.other_files :
                  /\ is_file(disk, g)
                  /\ get_relative_fname(g) \in c.mentioned_fnames } }

\* C15 (personalization by mentioned files): get_ranked_tags gives the
\* weight 10/|file_set| to exactly the existing files of the file set whose
\* relative path is among the mentioned files, and no personalization when
\* none is mentioned.
C15_PersonalizationByMention ==
    (call.op = "get_ranked_tags" /\ call.raised = "") =>
        call.personalization =
            [k \in MentionedRel(call) |->
                [num |-> 10, den |-> Cardinality(call.other_files)]]

\* Two calls of get_ranked_tags on the same files and personalization, the
\* second with ident among the mentioned identifiers, the first without.
Boosts(c, d, ident) ==
    /\ c.op = "get_ranked_tags" /\ d.op = "get_ranked_tags"
    /\ c.raised = "" /\ d.raised = ""
    /\ c.caught = "" /\ d.caught = ""
    /\ c.other_files = d.other_files
    /\ c.personalization = d.personalization
    /\ ident \notin c.mentioned_idents
    /\ d.mentioned_idents = c.mentioned_idents \cup {ident}

\* The keys of ranked_definitions in a call, and the rank accumulated for
\* one of them as a multiple of 1 / c.scale.
RankedKeys(c) == {c.definitions[i].key : i \in 1..Len(c.definitions)}

AccumulatedRank(c, key) ==
    SumSeq([i \in 1..Len(c.definitions) |->
               IF c.definitions[i].key = key THEN c.definitions[i].rank ELSE 0])

SharesWithOthers(c, key) ==
    \E e \in c.edges, o \in c.edges :
        /\ e.ident = key[2] /\ e.dst = key[1]
        /\ o.src = e.src /\ o.ident # key[2]

GraphNodes(c) == {e.src : e \in c.edges} \cup {e.dst : e \in c.edges}

\* C17 (segment order of the ranked list): in the list get_ranked_tags
\* returns every Tag precedes every bare-path marker, the markers of graph
\* nodes precede the markers of files that are no graph node, and the
\* markers of graph nodes are in descending order of node rank.
C17_SegmentOrder ==
    (call.op = "get_ranked_tags" /\ call.raised = "") =>
        LET list == call.ranked[1]
            node(i) == list[i].rel_fname \in GraphNodes(call)
        IN  \A i, j \in 1..Len(list) :
                i < j =>
                    /\ IsTag(list[j]) => IsTag(list[i])
                    /\ (~IsTag(list[i]) /\ ~IsTag(list[j])) =>
                           /\ node(j) => node(i)
                           /\ (node(i) /\ node(j)) =>
                                  node_rank[list[i].rel_fname]
                                      >= node_rank[list[j].rel_fname]

\* A list with a Tag, then the markers of two graph nodes of different
\* rank, then the marker of a file that is no graph node.
C17_Witness ==
    /\ call.op = "get_ranked_tags" /\ call.raised = ""
    /\ Len(call.ranked[1]) = 4
    /\ IsTag(call.ranked[1][1])
    /\ call.ranked[1][2] = Marker(RelB)
    /\ call.ranked[1][3] = Marker(RelA)
    /\ call.ranked[1][4] = Marker(RelN)
    /\ node_rank[RelB] > node_rank[RelA]
    /\ {RelA, RelB} \subseteq GraphNodes(call)
    /\ RelN \notin GraphNodes(call)

\* C19 (trailing bare-path markers are sorted): the markers get_ranked_tags
\* appends for the files that are no graph node are in ascending order of
\* relative path.
C19_TrailingMarkersSorted ==
    (call.op = "get_ranked_tags" /\ call.raised = "") =>
        LET list == call.ranked[1]
            trailing(i) == /\ ~IsTag(list[i])
                           /\ list[i].rel_fname \notin GraphNodes(call)
        IN  \A i, j \in 1..Len(list) :
                (i < j /\ trailing(i) /\ trailing(j)) =>
                    StrLess(list[i].rel_fname, list[j].rel_fname)

\* Where the extractor produced a Tag among the Tags of its file.
ExtractionIndex(t) ==
    CHOOSE k \in 1..Len(TAGS_CACHE[t.fname].data) :
        TAGS_CACHE[t.fname].data[k] = t

\* C20 (Tags sharing a key keep extraction order): definition Tags of the
\* same (defining file, identifier) key are in the list in the order in
\* which the extractor produced them.
C20_ExtractionOrder ==
    (call.op = "get_ranked_tags" /\ call.raised = "") =>
        LET list == call.ranked[1]
        IN  \A i, j \in 1..Len(list) :
                (/\ i < j
                 /\ IsTag(list[i]) /\ IsTag(list[j])
                 /\ list[i].rel_fname = list[j].rel_fname
                 /\ list[i].name = list[j].name) =>
                    ExtractionIndex(list[i]) < ExtractionIndex(list[j])

\* The Tags the files of a call's file set gave, per file in extraction
\* order, as the cache holds them after the call.
FileTags(c, f) ==
    IF is_file(disk, f) /\ f \in DOMAIN TAGS_CACHE THEN TAGS_CACHE[f].data
    ELSE <<>>

CountTags(c, rel_fname, ident, kind) ==
    SumSeq([i \in 1..Len(FileTags(c, get_absolute_path(rel_fname))) |->
        LET t == FileTags(c, get_absolute_path(rel_fname))[i]
        IN  IF t.name = ident /\ t.kind = kind THEN 1 ELSE 0])

RelFiles(c) == {get_relative_fname(f) : f \in c.other_files}

NoReferenceAtAll(c) ==
    \A r \in RelFiles(c), ident \in {IdF, IdG} :
        CountTags(c, r, ident, "ref") = 0

\* How often a file counts as referencing an identifier.
NumRefs(c, rel_fname, ident) ==
    IF NoReferenceAtAll(c)
    THEN (IF CountTags(c, rel_fname, ident, "def") > 0 THEN 1 ELSE 0)
    ELSE CountTags(c, rel_fname, ident, "ref")

\* C22 (edge construction): the graph has, for each identifier and each
\* pair of a file that references it and a file that defines it, exactly
\* one edge of that identifier, of weight the number of references in the
\* referencing file times 10 for a mentioned identifier, self-edges
\* included, and no other edge; with no reference Tag in any file each
\* defining file counts as referencing its identifiers once.
C22_EdgeConstruction ==
    (call.op = "get_ranked_tags" /\ call.raised = "") =>
        /\ call.edges =
               { [src |-> x[1], dst |-> x[2], ident |-> x[3],
                  weight |-> NumRefs(call, x[1], x[3])
                      * (IF x[3] \in call.mentioned_idents THEN 10 ELSE 1)] :
                 x \in
                     { y \in RelFiles(call) \X RelFiles(call) \X {IdF, IdG} :
                         /\ NumRefs(call, y[1], y[3]) > 0
                         /\ CountTags(call, y[2], y[3], "def") > 0 } }
        /\ call.num_edges = Cardinality(call.edges)

\* A graph with a self-edge of two references and an edge of a mentioned
\* identifier.
C22_Witness ==
    /\ call.op = "get_ranked_tags" /\ call.raised = ""
    /\ \E e \in call.edges : e.src = e.dst /\ e.weight = 2
    /\ \E e \in call.edges : e.src # e.dst /\ e.weight = 10
    /\ ~NoReferenceAtAll(call)

Captured(f) ==
    IF HasGrammar(f) /\ disk[f].kind = "file" /\ Pool[disk[f].content].code
    THEN Pool[disk[f].content].captures
    ELSE <<>>

CapturedSome(f, labels) ==
    \E i \in 1..Len(Captured(f)) : Captured(f)[i].label \in labels

CapturedDefNoRef(f) ==
    /\ CapturedSome(f, DefLabels)
    /\ ~CapturedSome(f, RefLabels)

\* The file's Tags hold a reference the lexer gave.
HasLexerRef(data) ==
    \E i \in 1..Len(data) : data[i].kind = "ref" /\ data[i].line = -1

\* C24 (lexical fallback rule): the Tags of a file hold lexer-derived
\* references (line -1) if and only if the query captured a definition and
\* no reference in the file.
C24_FallbackIff ==
    \A f \in DOMAIN TAGS_CACHE :
        HasLexerRef(TAGS_CACHE[f].data) <=> CapturedDefNoRef(f)

\* C24, amended: the Tags of a file hold lexer-derived references if and
\* only if the query captured a definition and no reference, a lexer is
\* found for the file and the text has a name token; no file's Tags hold
\* both a reference of a line >= 0 and one of line -1.
C24_FallbackRule ==
    \A f \in DOMAIN TAGS_CACHE :
        /\ HasLexerRef(TAGS_CACHE[f].data) <=>
               /\ CapturedDefNoRef(f)
               /\ Pool[disk[f].content].lexer
               /\ Pool[disk[f].content].tokens # <<>>
        /\ ~(/\ HasLexerRef(TAGS_CACHE[f].data)
             /\ \E i \in 1..Len(TAGS_CACHE[f].data) :
                    /\ TAGS_CACHE[f].data[i].kind = "ref"
                    /\ TAGS_CACHE[f].data[i].line >= 0)

\* The cache holds the Tags of a file with lexer-derived references and the
\* Tags of a file with a captured reference.
C24_Witness ==
    /\ \E f \in DOMAIN TAGS_CACHE : HasLexerRef(TAGS_CACHE[f].data)
    /\ \E f \in DOMAIN TAGS_CACHE :
           /\ CapturedSome(f, RefLabels)
           /\ CapturedSome(f, DefLabels)

\* C25 (skip and log once per path): over the calls on one instance a path
\* that is missing or no regular file is never passed to the tag cache, and
\* its "can't include" error is logged at most once; a path of the last
\* call's file set that is missing or no regular file has been logged.
C25_SkipAndLogOnce ==
    /\ \A f \in DOMAIN disk :
           disk[f].kind # "file" => f \notin DOMAIN TAGS_CACHE
    /\ \A i, j \in 1..Len(error_log) : error_log[i] = error_log[j] => i = j
    /\ \A i \in 1..Len(error_log) : disk[error_log[i]].kind # "file"
    /\ (call.op = "get_ranked_tags" /\ call.raised = "") =>
           \A f \in call.other_files :
               disk[f].kind # "file" => f \in Range(error_log)

\* A directory was skipped by a call on every file, which cached the tags
\* of a.py, and again by the last call, and was logged once.
C25_Witness ==
    /\ error_log = <<AbsB>> /\ disk[AbsB].kind = "dir"
    /\ call.op = "get_ranked_tags" /\ call.raised = ""
    /\ call.other_files = {AbsB, AbsN}
    /\ AbsA \in DOMAIN TAGS_CACHE

\* The relative paths of the bare-path markers of a list, in order.
MarkerPaths(list) ==
    LET IsMarker(e) == ~IsTag(e)
        markers == SelectSeq(list, IsMarker)
    IN  [i \in 1..Len(markers) |-> markers[i].rel_fname]

\* C28 (single representation per file): in the list that get_ranked_tags
\* returns every Tag is of kind "def", no relative path is both the file
\* of a Tag and a bare-path marker, and no relative path has two markers.
C28_SingleRepresentation ==
    (call.op # "none" /\ call.ranked # None) =>
        LET list    == call.ranked[1]
            markers == MarkerPaths(list)
        IN  /\ \A i \in 1..Len(list) :
                   IsTag(list[i]) =>
                       /\ list[i].kind = "def"
                       /\ list[i].line >= 0
                       /\ list[i].rel_fname \notin Range(markers)
            /\ \A i, j \in 1..Len(markers) :
                   markers[i] = markers[j] => i = j

\* The list holds a Tag of c.py, which a.py and b.py refer to, the markers
\* of these two graph nodes, and the marker of a file outside the graph;
\* the tag cache holds reference Tags.
C28_Witness ==
    /\ call.op = "get_ranked_tags" /\ call.raised = ""
    /\ \E i \in 1..Len(call.ranked[1]) :
           IsTag(call.ranked[1][i]) /\ call.ranked[1][i].rel_fname = RelC
    /\ {RelA, RelB} \subseteq call.nodes
    /\ {RelA, RelB, RelN} \subseteq Range(MarkerPaths(call.ranked[1]))
    /\ \E t \in Range(TAGS_CACHE[AbsA].data) : t.kind = "ref"

\* What get_repo_map gives, on the instance as it is, for the files and the
\* mentions given.
MapNow(other_files, mentioned_fnames, mentioned_idents, seed) ==
    get_repo_map(Self, disk, other_files, mentioned_fnames, mentioned_idents,
                 node_rank, seed, FALSE).out

\* C29 (history-aware fallback): get_history_aware_repo_map returns the
\* mention-biased map when that is not empty, and otherwise what
\* get_repo_map returns for the same file set with no mentions; once the
\* map is disabled (budget forced to 0) it returns "".
C29_HistoryAwareFallback ==
    call.op = "get_history_aware_repo_map" =>
        IF self_max_map_tokens <= 0 THEN call.out = <<>>
        ELSE \E seed \in HashSeeds :
                \E biased \in {MapNow(call.other_files, call.mentioned_fnames,
                                       call.mentioned_idents, seed)} :
                    IF biased # <<>> THEN call.out = biased
                    ELSE call.out = MapNow(call.other_files, {}, {}, seed)

\* The mention of f put the definition of f first, which does not fit the
\* budget; the caller received the map without mentions, which starts
\* with the definition of g.
C29_Witness ==
    /\ call.op = "get_history_aware_repo_map"
    /\ IdF \in call.mentioned_idents
    /\ self_max_map_tokens > 0
    /\ \A seed \in HashSeeds :
           MapNow(call.other_files, call.mentioned_fnames,
                  call.mentioned_idents, seed) = <<>>
    /\ call.out = <<"a", ":", LF, "g", LF>>

\* A RecursionError in the first attempt disabled the map and the caller
\* received "" for files whose map without mentions is not empty.
C29_WitnessDisabled ==
    /\ call.op = "get_history_aware_repo_map"
    /\ call.recursion /\ self_max_map_tokens = 0
    /\ call.out = <<>>
    /\ call.budget > 0

(***************************************************************************)
(* Claims about the mention extractor.                                     *)
(***************************************************************************)
\* w is a token of the text: some maximal run text[i..j] without whitespace
\* is w between quotes, followed by quotes and then by punctuation up to
\* j; c is where the punctuation at the end starts, a and b where the quotes
\* around w end and start.
IsToken(w, text) ==
    \E i \in 1..Len(text), j \in 1..Len(text) :
        /\ i <= j
        /\ \A k \in i..j : text[k] \notin Whitespace
        /\ i = 1 \/ text[i - 1] \in Whitespace
        /\ j = Len(text) \/ text[j + 1] \in Whitespace
        /\ \E c \in (i - 1)..j :
               /\ \A k \in (c + 1)..j : text[k] \in Punctuation
               /\ c >= i => text[c] \notin Punctuation
               /\ \E a \in i..(c + 1), b \in (i - 1)..c :
                      /\ a <= b + 1
                      /\ \A k \in i..(a - 1) : text[k] \in Quotes
                      /\ \A k \in (b + 1)..c : text[k] \in Quotes
                      /\ a <= b => (text[a] \notin Quotes /\ text[b] \notin Quotes)
                      /\ w = SubSeq(text, a, b)

HasNameMark(name) == \E k \in 1..Len(name) : name[k] \in {"/", ".", "_", "-"}

\* C18 (mentioned-file rule): get_file_mentions returns an addable path p
\* if and only if p is a token of the text, or p's basename has one of
\* / . _ -, no other addable path has that basename and the basename is a
\* token; it returns no path that is not addable.
C18_MentionedFileRule ==
    mention.op = "get_file_mentions" =>
        /\ mention.out \subseteq mention.addable
        /\ \A p \in mention.addable :
               p \in mention.out <=>
                   \/ IsToken(p, mention.text)
                   \/ /\ HasNameMark(basename(p))
                      /\ \A o \in mention.addable \ {p} :
                             basename(o) # basename(p)
                      /\ IsToken(basename(p), mention.text)

\* A text whose only word is "a.b". in quotes with a full stop has made the
\* extractor return d/a.b, the one file of that basename.
C18_Witness ==
    /\ mention.op = "get_file_mentions"
    /\ mention.text = <<" ", "\"">> \o PathAB \o <<"\"", ".">>
    /\ mention.addable = {PathDAB, PathDN, RelN}
    /\ mention.out = {PathDAB}


(***************************************************************************)
(* Claims about the trajectory formatter.                                  *)
(***************************************************************************)
\* Message i opens a run of user messages of t.
RunStart(t, i) == t[i].role = "user" /\ (i = 1 \/ t[i - 1].role # "user")

\* The last message of the run of user messages that message i opens.
RunEnd(t, i) ==
    CHOOSE j \in i..Len(t) :
        /\ \A k \in i..j : t[k].role = "user"
        /\ j = Len(t) \/ t[j + 1].role # "user"

\* The messages that are no user message or open a run, in order.
KeptMessages(t) ==
    LET kept == {i \in 1..Len(t) : t[i].role # "user" \/ RunStart(t, i)}
    IN  [k \in 1..Cardinality(kept) |->
            CHOOSE i \in kept : Cardinality({j \in kept : j < i}) = k - 1]

\* The text of the messages i..j of t, one after the other with a newline
\* between two of them.
RunText(t, i, j) ==
    [n \in 1..(SumSeq([k \in 1..(j - i + 1) |->
                          Len(_convert_content(t[i + k - 1].content))])
               + (j - i)) |->
        LET RECURSIVE At(_, _)
            At(k, m) ==
                LET c == _convert_content(t[k].content)
                IN  IF m <= Len(c) THEN c[m]
                    ELSE IF m = Len(c) + 1 THEN LF
                    ELSE At(k + 1, m - Len(c) - 1)
        IN  At(i, n)]

IsUser(message) == message.role = "user"

IsNotUser(message) == message.role # "user"

NumUserHeaders(output) ==
    Cardinality({i \in 1..Len(output) :
                    /\ output[i].item = "turn_header"
                    /\ output[i].role = "USER"})

\* C26 (merging user messages): the list that _merge_user_messages returns
\* has no two adjacent user messages; it holds, in order, the messages that
\* are no user message, unchanged, and for each maximal run of user
\* messages one user message whose content is the run's contents joined
\* by a newline; format_trajectory prints one USER turn header per run.
C26_MergeUserMessages ==
    /\ formatted.op = "_merge_user_messages" =>
           LET t    == formatted.trajectory
               kept == KeptMessages(t)
               out  == formatted.merged
           IN  /\ \A i \in 1..(Len(out) - 1) :
                      ~(IsUser(out[i]) /\ IsUser(out[i + 1]))
               /\ SelectSeq(out, IsNotUser) = SelectSeq(t, IsNotUser)
               /\ Len(out) = Len(kept)
               /\ \A k \in 1..Len(kept) :
                      IF IsUser(t[kept[k]])
                      THEN out[k] =
                               Message("user",
                                       Str(RunText(t, kept[k],
                                                   RunEnd(t, kept[k]))))
                      ELSE out[k] = t[kept[k]]
    /\ formatted.op = "format_trajectory" =>
           LET t == IF formatted.trajectory # <<>>
                       /\ formatted.trajectory[1].role = "system"
                    THEN Tail(formatted.trajectory)
                    ELSE formatted.trajectory
           IN  NumUserHeaders(formatted.output) =
                   Cardinality({i \in 1..Len(t) : RunStart(t, i)})

\* Two user messages, the second of a list content, and the assistant's
\* answer became two messages.
C26_Witness ==
    /\ formatted.op = "_merge_user_messages"
    /\ formatted.trajectory =
           <<Message("user", Str(<<"b">>)),
             Message("user", List(<<TextContent(<<"a">>),
                                    TextContent(<<"b">>)>>)),
             Message("assistant", Str(<<"a">>))>>
    /\ formatted.merged =
           <<Message("user", Str(<<"b", LF, "a", LF, "b">>)),
             Message("assistant", Str(<<"a">>))>>
====
